---------------------------- MODULE Spec2Model ----------------------------
(***************************************************************************)
(* A model of ai-router: the rate-limit-aware selection engine             *)
(* (RateLimitManager, MemoryUsageStorage, TokenEstimator, selectProvider), *)
(* the dispatcher sendRequest and AIRouter.chat.                           *)
(*                                                                         *)
(* Strings are sequences of character codes, so that the identity key is   *)
(* computed by the hash the code computes.  Optional numbers (rpm, tpm,    *)
(* rpd) are a natural number or Undefined.                                 *)
(***************************************************************************)
EXTENDS Integers, Sequences, FiniteSets, TLC

(***************************************************************************)
(* Bounds of the model.                                                    *)
(***************************************************************************)
\* chat calls made in one behaviour
MaxCalls == 5
\* direct recordRequest calls made in one behaviour
MaxRecords == 3
\* clock advances in one behaviour
MaxTicks == 2
NumProcs == 2
\* middlewares registered with use
MaxMiddlewares == 2
\* chat calls run through the middleware chain in one behaviour
MaxChats == 1
\* code points in the messages of a request given to the estimator
MaxLen == 5
\* messages of a request given to the estimator
MaxMessages == 2

(***************************************************************************)
(* Program constants.                                                      *)
(***************************************************************************)
MsPerMinute == 60000
MsPerDay == 86400000
\* charCode of '-' in `${account.apiKey}-${model}`
Dash == 45
\* charCode of '0', the first decimal digit of a number rendered in a template
Digit0 == 48
\* the value of an absent optional number (rpm?: number, ...)
Undefined == 0 - 1

(***************************************************************************)
(* 32-bit integer arithmetic of hash(): ((hash << 5) - hash) + char,       *)
(* then hash & hash (ToInt32).  The value is kept as two 16-bit halves so  *)
(* that no intermediate result leaves the 32-bit range.                    *)
(***************************************************************************)
Half == 256 * 256

hashStep(h, c) ==
    LET lo   == h % Half
        hi   == (h - lo) \div Half
        t    == 31 * lo + c
        lo2  == t % Half
        hi2  == 31 * hi + (t \div Half)
        hi3  == ((hi2 + (Half \div 2)) % Half) - (Half \div 2)
    IN  hi3 * Half + lo2

RECURSIVE hashFrom(_, _, _)
hashFrom(input, i, h) ==
    IF i > Len(input) THEN h
    ELSE hashFrom(input, i + 1, hashStep(h, input[i]))

\* Math.abs(hash).toString(): the decimal rendering is injective, the key is
\* kept as the number it renders
hash(input) ==
    LET h == hashFrom(input, 1, 0)
    IN  IF h < 0 THEN 0 - h ELSE h

\* a number rendered by a template literal: its decimal digits
RECURSIVE NumberToString(_)
NumberToString(n) ==
    IF n < 10 THEN <<Digit0 + n>>
    ELSE NumberToString(n \div 10) \o <<Digit0 + (n % 10)>>

\* the identity without the account's key
getAccountModelIdentifierOfModel(account, model) == hash(model)

getAccountModelIdentifier(account, model) ==
    hash(account.apiKey \o <<Dash>> \o model)

(***************************************************************************)
(* TokenEstimator                                                          *)
(***************************************************************************)
IsCJK(code) ==
    \/ (code >= 19968 /\ code <= 40959)      \* 0x4e00-0x9fff
    \/ (code >= 13312 /\ code <= 19903)      \* 0x3400-0x4dbf
    \/ (code >= 131072 /\ code <= 173791)    \* 0x20000-0x2a6df
    \/ (code >= 173824 /\ code <= 177983)    \* 0x2a700-0x2b73f
    \/ (code >= 177984 /\ code <= 178207)    \* 0x2b740-0x2b81f
    \/ (code >= 178208 /\ code <= 183983)    \* 0x2b820-0x2ceaf
    \/ (code >= 183984 /\ code <= 191471)    \* 0x2ceb0-0x2ebef
    \/ (code >= 196608 /\ code <= 201551)    \* 0x30000-0x3134f
    \/ (code >= 12688 /\ code <= 12703)      \* 0x3190-0x319f
    \/ (code >= 12544 /\ code <= 12591)      \* 0x3100-0x312f
    \/ (code >= 12704 /\ code <= 12735)      \* 0x31a0-0x31bf
    \/ (code >= 12352 /\ code <= 12447)      \* 0x3040-0x309f
    \/ (code >= 12448 /\ code <= 12543)      \* 0x30a0-0x30ff
    \/ (code >= 44032 /\ code <= 55215)      \* 0xac00-0xd7af

IsLatin(code) ==
    \/ (code >= 32 /\ code <= 127)           \* 0x0020-0x007f
    \/ (code >= 160 /\ code <= 255)          \* 0x00a0-0x00ff
    \/ (code >= 256 /\ code <= 383)          \* 0x0100-0x017f
    \/ (code >= 384 /\ code <= 591)          \* 0x0180-0x024f

FloorDiv(n, d) == n \div d

\* Math.ceil(n / d)
CeilDiv(n, d) == (n + d - 1) \div d

\* str is the sequence of the string's code points (for (const char of str))
estimateStringTokens(str) ==
    LET idx        == 1..Len(str)
        cjkCount   == Cardinality({i \in idx : IsCJK(str[i])})
        latinCount == Cardinality({i \in idx : ~IsCJK(str[i]) /\ IsLatin(str[i])})
        otherCount == Cardinality({i \in idx : ~IsCJK(str[i]) /\ ~IsLatin(str[i])})
    IN  IF Len(str) = 0 THEN 0
        ELSE cjkCount + CeilDiv(latinCount, 4) + CeilDiv(otherCount, 2)

\* msg.content || '': a message without content counts as the empty string
ContentOrEmpty(msg) == IF "content" \in DOMAIN msg THEN msg.content ELSE <<>>

RECURSIVE SumTokens(_, _)
SumTokens(messages, i) ==
    IF i > Len(messages) THEN 0
    ELSE estimateStringTokens(ContentOrEmpty(messages[i])) + SumTokens(messages, i + 1)

estimateInputTokens(request) == SumTokens(request.messages, 1)

\* RateLimitManager.estimateTokens(request) as selectProvider calls it: no model
estimateTokens(request) == estimateInputTokens(request)

(***************************************************************************)
(* The usage store: a map from identity key to UsageData.                  *)
(***************************************************************************)
EmptyStore == [k \in {} |-> 0]

\* a set that adds the counters it is given to the ones the entry holds
storagePutAdding(st, id, usage) ==
    [k \in (DOMAIN st) \cup {id} |->
        IF k # id THEN st[k]
        ELSE IF id \in DOMAIN st
        THEN [usage EXCEPT !.requestsThisMinute = @ + st[id].requestsThisMinute,
                           !.tokensThisMinute   = @ + st[id].tokensThisMinute,
                           !.requestsToday      = @ + st[id].requestsToday]
        ELSE usage]

\* MemoryUsageStorage.set
storagePut(st, id, usage) ==
    [k \in (DOMAIN st) \cup {id} |-> IF k = id THEN usage ELSE st[k]]

NewUsage(t) ==
    [requestsThisMinute |-> 0,
     tokensThisMinute   |-> 0,
     requestsToday      |-> 0,
     lastResetTime      |-> [minute |-> t \div MsPerMinute, day |-> t \div MsPerDay]]

\* the reset rule leaving tokensThisMinute as it is at a minute rollover
ResetIfNeededKeepingTokens(usage, t) ==
    LET currentMinute == t \div MsPerMinute
        currentDay    == t \div MsPerDay
        u1 == IF usage.lastResetTime.minute # currentMinute
              THEN [usage EXCEPT !.requestsThisMinute = 0,
                                 !.lastResetTime.minute = currentMinute]
              ELSE usage
    IN  IF u1.lastResetTime.day # currentDay
        THEN [u1 EXCEPT !.requestsToday = 0, !.lastResetTime.day = currentDay]
        ELSE u1

\* the reset rule zeroing every counter at a day rollover
ResetIfNeededDayZeroesAll(usage, t) ==
    LET currentMinute == t \div MsPerMinute
        currentDay    == t \div MsPerDay
        u1 == IF usage.lastResetTime.minute # currentMinute
              THEN [usage EXCEPT !.requestsThisMinute = 0,
                                 !.tokensThisMinute = 0,
                                 !.lastResetTime.minute = currentMinute]
              ELSE usage
    IN  IF u1.lastResetTime.day # currentDay
        THEN [u1 EXCEPT !.requestsToday = 0, !.requestsThisMinute = 0,
                        !.tokensThisMinute = 0, !.lastResetTime.day = currentDay]
        ELSE u1

\* the reset rule shared by getCurrentUsage and MemoryUsageStorage.increment
ResetIfNeeded(usage, t) ==
    LET currentMinute == t \div MsPerMinute
        currentDay    == t \div MsPerDay
        u1 == IF usage.lastResetTime.minute # currentMinute
              THEN [usage EXCEPT !.requestsThisMinute = 0,
                                 !.tokensThisMinute = 0,
                                 !.lastResetTime.minute = currentMinute]
              ELSE usage
    IN  IF u1.lastResetTime.day # currentDay
        THEN [u1 EXCEPT !.requestsToday = 0, !.lastResetTime.day = currentDay]
        ELSE u1

\* an increment that leaves requestsToday as it is
incrementWithoutDay(st, id, requestCount, tokenCount, t) ==
    LET usage0 == IF id \in DOMAIN st THEN st[id] ELSE NewUsage(t)
        usage1 == ResetIfNeeded(usage0, t)
        usage2 == [usage1 EXCEPT
                     !.requestsThisMinute = @ + requestCount,
                     !.tokensThisMinute   = @ + tokenCount]
    IN  storagePut(st, id, usage2)

\* MemoryUsageStorage.increment: one step, no await inside
increment(st, id, requestCount, tokenCount, t) ==
    LET usage0 == IF id \in DOMAIN st THEN st[id] ELSE NewUsage(t)
        usage1 == ResetIfNeeded(usage0, t)
        usage2 == [usage1 EXCEPT
                     !.requestsThisMinute = @ + requestCount,
                     !.tokensThisMinute   = @ + tokenCount,
                     !.requestsToday      = @ + requestCount]
    IN  storagePut(st, id, usage2)

(***************************************************************************)
(* RateLimitManager.  An operation that reads the store returns the store  *)
(* it leaves behind beside its value.                                      *)
(***************************************************************************)
\* getCurrentUsage without the reset of stale windows
getCurrentUsageWithoutReset(st, id, t) ==
    [usage |-> IF id \in DOMAIN st THEN st[id] ELSE NewUsage(t), store |-> st]

\* getCurrentUsage that counts the read as a request of the minute
getCurrentUsageCounting(st, id, t) ==
    LET usage0 == IF id \in DOMAIN st THEN st[id] ELSE NewUsage(t)
        usage1 == ResetIfNeeded(usage0, t)
        usage2 == [usage1 EXCEPT !.requestsThisMinute = @ + 1]
    IN  [usage |-> usage1, store |-> storagePut(st, id, usage2)]

\* the reset is returned and not saved
getCurrentUsageWithoutSave(st, id, t) ==
    LET usage0 == IF id \in DOMAIN st THEN st[id] ELSE NewUsage(t)
    IN  [usage |-> ResetIfNeeded(usage0, t), store |-> st]

getCurrentUsage(st, id, t) ==
    LET usage0      == IF id \in DOMAIN st THEN st[id] ELSE NewUsage(t)
        usage1      == ResetIfNeeded(usage0, t)
        needsUpdate == usage1 # usage0
    IN  [usage |-> usage1,
         store |-> IF needsUpdate THEN storagePut(st, id, usage1) ELSE st]

\* canHandleRequest without its tokens-per-minute test
canHandleRequestWithoutTpm(st, account, model, estimatedTokens, t) ==
    IF ~account.hasRateLimit THEN [ok |-> TRUE, store |-> st]
    ELSE
      LET cur   == getCurrentUsage(st, getAccountModelIdentifier(account, model), t)
          usage == cur.usage
          limits == account.rateLimit
      IN  [ok |->
             /\ ~(limits.rpm # Undefined /\ usage.requestsThisMinute >= limits.rpm)
             /\ ~(limits.rpd # Undefined /\ usage.requestsToday >= limits.rpd),
           store |-> cur.store]

\* canHandleRequest refusing already when the sum reaches tpm
canHandleRequestTpmInclusive(st, account, model, estimatedTokens, t) ==
    IF ~account.hasRateLimit THEN [ok |-> TRUE, store |-> st]
    ELSE
      LET cur   == getCurrentUsage(st, getAccountModelIdentifier(account, model), t)
          usage == cur.usage
          limits == account.rateLimit
      IN  [ok |->
             /\ ~(limits.rpm # Undefined /\ usage.requestsThisMinute >= limits.rpm)
             /\ ~(limits.tpm # Undefined
                    /\ usage.tokensThisMinute + estimatedTokens >= limits.tpm)
             /\ ~(limits.rpd # Undefined /\ usage.requestsToday >= limits.rpd),
           store |-> cur.store]

\* canHandleRequest counting the request it admits
canHandleRequestCounting(st, account, model, estimatedTokens, t) ==
    IF ~account.hasRateLimit THEN [ok |-> TRUE, store |-> st]
    ELSE
      LET accountId == getAccountModelIdentifier(account, model)
          cur   == getCurrentUsage(st, accountId, t)
          usage == cur.usage
          limits == account.rateLimit
          ok ==
             /\ ~(limits.rpm # Undefined /\ usage.requestsThisMinute >= limits.rpm)
             /\ ~(limits.tpm # Undefined
                    /\ usage.tokensThisMinute + estimatedTokens > limits.tpm)
             /\ ~(limits.rpd # Undefined /\ usage.requestsToday >= limits.rpd)
      IN  [ok |-> ok,
           store |-> IF ok THEN increment(st, accountId, 1, estimatedTokens, t)
                     ELSE cur.store]

canHandleRequest(st, account, model, estimatedTokens, t) ==
    IF ~account.hasRateLimit THEN [ok |-> TRUE, store |-> st]
    ELSE
      LET cur   == getCurrentUsage(st, getAccountModelIdentifier(account, model), t)
          usage == cur.usage
          limits == account.rateLimit
      IN  [ok |->
             /\ ~(limits.rpm # Undefined /\ usage.requestsThisMinute >= limits.rpm)
             /\ ~(limits.tpm # Undefined
                    /\ usage.tokensThisMinute + estimatedTokens > limits.tpm)
             /\ ~(limits.rpd # Undefined /\ usage.requestsToday >= limits.rpd),
           store |-> cur.store]

\* recordRequest whose get-and-set path leaves requestsToday as it is
recordRequestFallbackWithoutDay(st, hasIncrement, account, model, tokensUsed, t) ==
    LET accountId == getAccountModelIdentifier(account, model)
    IN  IF hasIncrement THEN increment(st, accountId, 1, tokensUsed, t)
        ELSE
          LET cur == getCurrentUsage(st, accountId, t)
          IN  storagePut(cur.store, accountId,
                [cur.usage EXCEPT !.requestsThisMinute = @ + 1,
                                  !.tokensThisMinute   = @ + tokensUsed])

\* hasIncrement: this.storage.increment is defined
recordRequest(st, hasIncrement, account, model, tokensUsed, t) ==
    LET accountId == getAccountModelIdentifier(account, model)
    IN  IF hasIncrement THEN increment(st, accountId, 1, tokensUsed, t)
        ELSE
          LET cur == getCurrentUsage(st, accountId, t)
          IN  storagePut(cur.store, accountId,
                [cur.usage EXCEPT !.requestsThisMinute = @ + 1,
                                  !.tokensThisMinute   = @ + tokensUsed,
                                  !.requestsToday      = @ + 1])

Max(a, b) == IF a >= b THEN a ELSE b

\* the score without its requests-per-day factor
getAvailabilityScoreWithoutRpd(st, account, model, t) ==
    IF ~account.hasRateLimit THEN [score |-> [num |-> 1, den |-> 1], store |-> st]
    ELSE
      LET cur    == getCurrentUsage(st, getAccountModelIdentifier(account, model), t)
          usage  == cur.usage
          limits == account.rateLimit
          s0 == [num |-> 1, den |-> 1]
          s1 == IF limits.rpm # Undefined
                THEN [num |-> s0.num * Max(0, limits.rpm - usage.requestsThisMinute),
                      den |-> s0.den * limits.rpm]
                ELSE s0
          s2 == IF limits.tpm # Undefined
                THEN [num |-> s1.num * Max(0, limits.tpm - usage.tokensThisMinute),
                      den |-> s1.den * limits.tpm]
                ELSE s1
      IN  [score |-> s2, store |-> cur.store]

\* the score is the exact fraction num / den
getAvailabilityScore(st, account, model, t) ==
    IF ~account.hasRateLimit THEN [score |-> [num |-> 1, den |-> 1], store |-> st]
    ELSE
      LET cur    == getCurrentUsage(st, getAccountModelIdentifier(account, model), t)
          usage  == cur.usage
          limits == account.rateLimit
          s0 == [num |-> 1, den |-> 1]
          s1 == IF limits.rpm # Undefined
                THEN [num |-> s0.num * Max(0, limits.rpm - usage.requestsThisMinute),
                      den |-> s0.den * limits.rpm]
                ELSE s0
          s2 == IF limits.tpm # Undefined
                THEN [num |-> s1.num * Max(0, limits.tpm - usage.tokensThisMinute),
                      den |-> s1.den * limits.tpm]
                ELSE s1
          s3 == IF limits.rpd # Undefined
                THEN [num |-> s2.num * Max(0, limits.rpd - usage.requestsToday),
                      den |-> s2.den * limits.rpd]
                ELSE s2
      IN  [score |-> s3, store |-> cur.store]

(***************************************************************************)
(* Configurations.  A provider's endpoint is "" when it is not set; an     *)
(* account without rateLimit has hasRateLimit = FALSE.                     *)
(***************************************************************************)
DefaultEndpoint == "https://api.openai.com/v1"

NoLimits == [rpm |-> Undefined, tpm |-> Undefined, rpd |-> Undefined]

Account(apiKey, models, hasRateLimit, rateLimit) ==
    [apiKey |-> apiKey, models |-> models,
     hasRateLimit |-> hasRateLimit, rateLimit |-> rateLimit]

\* apiKey 'a', 'b', 'c'; model names 'm', 'n'
KeyA == <<97>>
KeyB == <<98>>
KeyC == <<99>>
ModelM == <<109>>
ModelN == <<110>>

AccountA2 == Account(KeyA, <<ModelM>>, TRUE, [NoLimits EXCEPT !.rpm = 2])
AccountB2 == Account(KeyB, <<ModelM>>, TRUE, [NoLimits EXCEPT !.rpm = 2])
\* tokens per minute and requests per day
AccountT  == Account(KeyA, <<ModelM, ModelN>>, TRUE,
                     [rpm |-> Undefined, tpm |-> 4, rpd |-> 4])
AccountR  == Account(KeyB, <<ModelM>>, TRUE, [rpm |-> 4, tpm |-> 4, rpd |-> 2])
AccountU  == Account(KeyC, <<ModelN>>, FALSE, NoLimits)

Provider(endpoint, accounts) == [endpoint |-> endpoint, accounts |-> accounts]

Config(providers, strategy, hasIncrement, storeMayFail) ==
    [providers |-> providers, strategy |-> strategy,
     hasIncrement |-> hasIncrement, storeMayFail |-> storeMayFail]

\* one provider, one account with rpm = 2, one model
CfgSingle == Config(<<Provider("https://api.test.com", <<AccountA2>>)>>,
                    "rate-limit-aware", TRUE, FALSE)
\* two accounts with rpm = 2 each
CfgTwo    == Config(<<Provider("https://api.test.com", <<AccountA2, AccountB2>>)>>,
                    "rate-limit-aware", TRUE, FALSE)
\* one account with tokens per minute and requests per day, two models
CfgTokens == Config(<<Provider("https://api.test.com", <<AccountT>>)>>,
                    "rate-limit-aware", TRUE, FALSE)
\* two providers, limits of several kinds, an unlimited account
CfgMixed  == Config(<<Provider("https://api.test.com", <<AccountT>>),
                      Provider("", <<AccountR, AccountU>>)>>,
                    "rate-limit-aware", TRUE, FALSE)
\* a supplied store that offers only get and set and whose operations may reject
CfgCustom == Config(<<Provider("https://api.test.com", <<AccountA2>>)>>,
                    "rate-limit-aware", FALSE, TRUE)
CfgRandom == Config(<<Provider("https://api.test.com", <<AccountA2, AccountB2>>)>>,
                    "random", TRUE, FALSE)
\* providers without any model
CfgNoModels == Config(<<Provider("https://api.test.com", <<>>)>>,
                      "rate-limit-aware", TRUE, FALSE)
CfgNoProviders == Config(<<>>, "rate-limit-aware", TRUE, FALSE)

\* the configurations of the routers that serve chat calls
Configs == {CfgSingle, CfgTwo, CfgTokens, CfgCustom, CfgRandom,
            CfgNoModels, CfgNoProviders}

\* the configurations selectProvider is called with directly
MgrConfigs == Configs \cup {CfgMixed}

\* credentials 'Aa' and 'BB', models 'm-n' and 'n', credential 'a-m'
KeyAa == <<65, 97>>
KeyBB == <<66, 66>>
KeyAM == <<97, 45, 109>>
ModelMN == <<109, 45, 110>>

\* two accounts whose credentials differ, one model
CfgKeys == Config(<<Provider("https://api.test.com",
                             <<Account(KeyAa, <<ModelM>>, TRUE, [NoLimits EXCEPT !.rpm = 2]),
                               Account(KeyBB, <<ModelM>>, TRUE, [NoLimits EXCEPT !.rpm = 2])>>)>>,
                  "rate-limit-aware", TRUE, FALSE)
\* two accounts whose credentials and models both differ
CfgDashes == Config(<<Provider("https://api.test.com",
                               <<Account(KeyA, <<ModelMN>>, TRUE, [NoLimits EXCEPT !.rpm = 2]),
                                 Account(KeyAM, <<ModelN>>, TRUE, [NoLimits EXCEPT !.rpm = 2])>>)>>,
                    "rate-limit-aware", TRUE, FALSE)

\* configurations of two pairs that differ in credential, in model, or in both
PairConfigs == {CfgTwo, CfgTokens, CfgKeys, CfgDashes}

\* requests: their messages' contents as code points
Request(contents) ==
    [messages |-> [i \in 1..Len(contents) |-> [role |-> "user", content |-> contents[i]]]]

\* no message: 0 tokens (the request of a router that has served none)
ReqEmpty == Request(<<>>)
\* 'Hi': two Latin characters, 1 token
ReqHi    == Request(<< <<72, 105>> >>)
\* two messages, CJK and Latin: 4 + 1 = 5 tokens
ReqCJK   == Request(<< <<20320, 22909, 19990, 30028>>, <<63>> >>)

Requests == {ReqHi, ReqCJK}

\* data.usage?.prompt_tokens of a 2xx response (0: absent or zero)
PromptTokens == {0, 5}

(***************************************************************************)
(* selectProvider                                                          *)
(***************************************************************************)
FlattenAccount(provider, account) ==
    [i \in 1..Len(account.models) |->
        [model    |-> account.models[i],
         endpoint |-> IF provider.endpoint # "" THEN provider.endpoint
                      ELSE DefaultEndpoint,
         apiKey   |-> account.apiKey,
         account  |-> account]]

RECURSIVE FlattenAccounts(_, _)
FlattenAccounts(provider, i) ==
    IF i > Len(provider.accounts) THEN <<>>
    ELSE FlattenAccount(provider, provider.accounts[i])
            \o FlattenAccounts(provider, i + 1)

RECURSIVE FlattenProviders(_, _)
FlattenProviders(providers, i) ==
    IF i > Len(providers) THEN <<>>
    ELSE FlattenAccounts(providers[i], 1) \o FlattenProviders(providers, i + 1)

\* providerModels of selectProvider
Flatten(cfg) == FlattenProviders(cfg.providers, 1)

\* the filtering loop pushing every candidate, whatever canHandleRequest says
RECURSIVE FilterAvailableAll(_, _, _, _, _, _)
FilterAvailableAll(st, providerModels, i, estimatedTokens, t, acc) ==
    IF i > Len(providerModels) THEN [available |-> acc, store |-> st]
    ELSE
      LET pm == providerModels[i]
          r  == canHandleRequest(st, pm.account, pm.model, estimatedTokens, t)
      IN  FilterAvailableAll(r.store, providerModels, i + 1, estimatedTokens, t,
                             Append(acc, i))

\* the filtering loop: the indices of the candidates canHandleRequest admits,
\* in flattening order, and the store the loop leaves
RECURSIVE FilterAvailable(_, _, _, _, _, _)
FilterAvailable(st, providerModels, i, estimatedTokens, t, acc) ==
    IF i > Len(providerModels) THEN [available |-> acc, store |-> st]
    ELSE
      LET pm == providerModels[i]
          r  == canHandleRequest(st, pm.account, pm.model, estimatedTokens, t)
      IN  FilterAvailable(r.store, providerModels, i + 1, estimatedTokens, t,
                          IF r.ok THEN Append(acc, i) ELSE acc)

\* the scoring loop
RECURSIVE ScoreAvailable(_, _, _, _, _, _)
ScoreAvailable(st, providerModels, available, k, t, acc) ==
    IF k > Len(available) THEN [scored |-> acc, store |-> st]
    ELSE
      LET pm == providerModels[available[k]]
          r  == getAvailabilityScore(st, pm.account, pm.model, t)
      IN  ScoreAvailable(r.store, providerModels, available, k + 1, t,
                         Append(acc, [provider |-> available[k], score |-> r.score]))

\* the comparator with its operands exchanged: a.score - b.score
CompareScoreAscending(a, b) == a.score.num * b.score.den - b.score.num * a.score.den

\* the sign of the comparator (a, b) => b.score - a.score
CompareScore(a, b) == b.score.num * a.score.den - a.score.num * b.score.den

\* Array.prototype.sort is stable: x goes behind every element the comparator
\* does not put behind it
InsertSorted(sorted, x) ==
    LET k == Cardinality({i \in 1..Len(sorted) : CompareScore(sorted[i], x) <= 0})
    IN  SubSeq(sorted, 1, k) \o <<x>> \o SubSeq(sorted, k + 1, Len(sorted))

RECURSIVE SortScored(_, _, _)
SortScored(scored, i, acc) ==
    IF i > Len(scored) THEN acc
    ELSE SortScored(scored, i + 1, InsertSorted(acc, scored[i]))

Outcome(err, provider, st) == [err |-> err, provider |-> provider, store |-> st]

\* provider: the index of the chosen candidate in providerModels, 0 for none
selectRateLimitAwareProvider(st, providerModels, hasRequest, request, t) ==
    LET estimatedTokens == IF hasRequest THEN estimateTokens(request) ELSE 0
        f      == FilterAvailable(st, providerModels, 1, estimatedTokens, t, <<>>)
        s      == ScoreAvailable(f.store, providerModels, f.available, 1, t, <<>>)
        sorted == SortScored(s.scored, 1, <<>>)
    IN  IF Len(f.available) = 0
        THEN Outcome("All accounts have exceeded their rate limits", 0, f.store)
        ELSE Outcome("", sorted[1].provider, s.store)

\* a store operation of a supplied store rejects: the first one does
StoreTouched(cfg) ==
    \E i \in 1..Len(Flatten(cfg)) : Flatten(cfg)[i].account.hasRateLimit

\* selectProvider taking every strategy but 'random' for 'rate-limit-aware' and
\* not asking for the manager
selectProviderAnyStrategy(cfg, hasManager, st, hasRequest, request, t) ==
    LET providerModels == Flatten(cfg)
    IN  IF Len(cfg.providers) = 0
        THEN {Outcome("No providers configured", 0, st)}
        ELSE IF cfg.strategy = "random" \/ cfg.strategy = "undefined"
        THEN IF Len(providerModels) = 0 THEN {Outcome("", 0, st)}
             ELSE {Outcome("", i, st) : i \in 1..Len(providerModels)}
        ELSE {selectRateLimitAwareProvider(st, providerModels, hasRequest, request, t)}

\* the set of results one call can have: Math.random picks any index; an index
\* into an empty list gives undefined, reported as provider 0 without error
selectProvider(cfg, hasManager, st, hasRequest, request, t) ==
    LET providerModels == Flatten(cfg)
    IN  IF Len(cfg.providers) = 0
        THEN {Outcome("No providers configured", 0, st)}
        ELSE IF cfg.strategy = "random" \/ cfg.strategy = "undefined"
        THEN IF Len(providerModels) = 0 THEN {Outcome("", 0, st)}
             ELSE {Outcome("", i, st) : i \in 1..Len(providerModels)}
        ELSE IF cfg.strategy = "rate-limit-aware"
        THEN IF ~hasManager
             THEN {Outcome("Rate limit manager is required for rate-limit-aware strategy",
                           0, st)}
             ELSE {selectRateLimitAwareProvider(st, providerModels, hasRequest, request, t)}
                  \cup (IF cfg.storeMayFail /\ StoreTouched(cfg)
                        THEN {Outcome("Storage error", 0, st)} ELSE {})
        ELSE {Outcome("Unknown strategy", 0, st)}

(***************************************************************************)
(* sendRequest                                                             *)
(***************************************************************************)
\* the guard left out
RecordingEnabledAlways(cfg) == TRUE

\* config?.strategy === 'rate-limit-aware' && rateLimitManager && account
RecordingEnabled(cfg) == cfg.strategy = "rate-limit-aware"

\* rateLimitManager.recordRequest(account, tokensUsed): two arguments for the
\* parameters (account, model, tokensUsed = 0).  The number binds to model,
\* which the template literal of the identity renders in decimal, and
\* tokensUsed takes its default.
sendRequestRecord(st, cfg, pm, tokensUsed, t) ==
    recordRequest(st, cfg.hasIncrement, pm.account, NumberToString(tokensUsed), 0, t)

\* the error sendRequest throws for a failed dispatch
DispatchError(outcome) ==
    CASE outcome = "http"    -> "Request failed: 500 Internal Server Error"
      [] outcome = "network" -> "Network error"
      [] outcome = "json"    -> "Unexpected end of JSON input"
      [] OTHER               -> ""

(***************************************************************************)
(* State                                                                   *)
(***************************************************************************)
VARIABLES
    config,     \* the AIRouterConfig given to the constructor
    now,        \* Date.now()
    storage,    \* the usage store's map
    calls,      \* chat calls (or direct recordings) made so far
    pc,         \* where the chat call in flight is: idle, fetch, record, catch, done
    req,        \* the request of the last call
    sel,        \* the candidate selected by the last select (index, 0: none)
    outcome,    \* how the fetch of the call in flight resolved
    tokensUsed, \* data.usage?.prompt_tokens || 0 of a 2xx response
    err,        \* the error caught by sendRequest's catch
    result,     \* what the last call returned or threw
    nFetch,     \* fetch calls of the chat call in flight
    nRecord,    \* recordRequest calls of the chat call in flight
    preStore,   \* the store the last select started from
    selTime,    \* the time of the last select
    winMinute,  \* the minute window winLog and winCount are about
    winLog,     \* results of the chat calls begun in that window, up to the first
                \* that did not succeed: ok, the error of the select, or that
                \* sendRequest threw
    winCount,   \* per candidate: requests sent (or recorded directly) in it
    race,       \* calls in flight at once: each caller's position and locals
    onion,      \* the middleware chain and the chat call running through it
    estimate,   \* the token estimate of req, when the estimator was applied to it
    fallback    \* a second store, of a manager that records by get and set

vars == <<config, now, storage, calls, pc, req, sel, outcome, tokensUsed,
          err, result, nFetch, nRecord, preStore, selTime, winMinute, winLog,
          winCount, race, onion, estimate, fallback>>

\* the middle of the last but one minute of a day
StartTime == 1438 * MsPerMinute + MsPerMinute \div 2

Minute(t) == t \div MsPerMinute

ZeroCount(cfg) == [i \in 1..Len(Flatten(cfg)) |-> 0]

\* the callers that may be between two awaits at once
Procs == 1..NumProcs

\* no call in flight: every caller idle, nothing sent or recorded yet
RaceIdle(usage) ==
    [pc       |-> [p \in Procs |-> "idle"],
     id       |-> [p \in Procs |-> 0],
     tokens   |-> [p \in Procs |-> 0],
     direct   |-> [p \in Procs |-> FALSE],
     local    |-> [p \in Procs |-> NewUsage(StartTime)],
     expected |-> usage,
     sent     |-> 0,
     directCalls |-> 0,
     overlap  |-> FALSE]

\* no middleware registered and no chat call running through the chain
OnionIdle ==
    [mw     |-> <<>>,
     chain  |-> <<>>,
     wrote  |-> FALSE,
     stack  |-> <<>>,
     log    |-> <<>>,
     ret    |-> "none",
     status |-> "idle"]

InitOf(configs) ==
    /\ config \in configs
    /\ now = StartTime
    /\ storage = EmptyStore
    /\ calls = 0
    /\ pc = "idle"
    /\ req = ReqEmpty
    /\ sel = 0
    /\ outcome = "none"
    /\ tokensUsed = 0
    /\ err = ""
    /\ result = ""
    /\ nFetch = 0
    /\ nRecord = 0
    /\ preStore = EmptyStore
    /\ selTime = StartTime
    /\ winMinute = Minute(StartTime)
    /\ winLog = <<>>
    /\ winCount = ZeroCount(config)
    /\ race = RaceIdle(NewUsage(StartTime))
    /\ onion = OnionIdle
    /\ estimate = 0
    /\ fallback = EmptyStore

Init == InitOf(Configs)

\* the log stops at the first call that did not succeed
LogAppend(log, entry) ==
    IF log # <<>> /\ log[Len(log)] # "ok" THEN log ELSE Append(log, entry)

\* the window's log and counts as a call made at time now sees them
LogNow   == IF Minute(now) = winMinute THEN winLog ELSE <<>>
CountNow == IF Minute(now) = winMinute THEN winCount ELSE ZeroCount(config)

\* a minute passes
Tick ==
    /\ now < StartTime + MaxTicks * MsPerMinute
    /\ now' = now + MsPerMinute
    /\ UNCHANGED <<config, storage, calls, pc, req, sel, outcome, tokensUsed, err,
                   result, nFetch, nRecord, preStore, selTime, winMinute, winLog,
                   winCount,
                   race, onion,
                   estimate, fallback>>

(***************************************************************************)
(* AIRouter.chat without middleware: dispatch(0) is the last layer.        *)
(* ChatSelect runs selectProvider and, with a candidate, issues the fetch. *)
(***************************************************************************)
ChatSelect(request) ==
    /\ pc \in {"idle", "done"}
    /\ calls < MaxCalls
    /\ \E o \in selectProvider(config, TRUE, storage, TRUE, request, now) :
         /\ storage' = o.store
         /\ sel' = o.provider
         /\ IF o.err # ""
            THEN /\ pc' = "done"
                 /\ result' = o.err
                 /\ nFetch' = 0
                 /\ winLog' = LogAppend(LogNow, o.err)
                 /\ winCount' = CountNow
            ELSE IF o.provider = 0
            THEN /\ pc' = "done"
                 /\ result' = "No provider model found for the request"
                 /\ nFetch' = 0
                 /\ winLog' = LogAppend(LogNow, "No provider model found for the request")
                 /\ winCount' = CountNow
            ELSE /\ pc' = "fetch"
                 /\ result' = ""
                 /\ nFetch' = 1
                 /\ winLog' = LogNow
                 /\ winCount' = [CountNow EXCEPT ![o.provider] = @ + 1]
    /\ calls' = calls + 1
    /\ req' = request
    /\ outcome' = "none"
    /\ tokensUsed' = 0
    /\ err' = ""
    /\ nRecord' = 0
    /\ preStore' = storage
    /\ selTime' = now
    /\ winMinute' = Minute(now)
    /\ UNCHANGED <<config, now,
                   race, onion,
                   estimate, fallback>>

\* the fetch rejects, or resolves with a non-2xx response, or response.json()
\* rejects: the catch block runs next
FetchFails(o) ==
    /\ pc = "fetch"
    /\ outcome' = o
    /\ err' = DispatchError(o)
    /\ pc' = "catch"
    /\ UNCHANGED <<config, now, storage, calls, req, sel, tokensUsed, result,
                   nFetch, nRecord, preStore, selTime, winMinute, winLog, winCount,
                   race, onion,
                   estimate, fallback>>

\* a 2xx response whose body parses
FetchSucceeds(promptTokens) ==
    /\ pc = "fetch"
    /\ outcome' = "ok"
    /\ tokensUsed' = promptTokens
    /\ pc' = "record"
    /\ UNCHANGED <<config, now, storage, calls, req, sel, err, result,
                   nFetch, nRecord, preStore, selTime, winMinute, winLog, winCount,
                   race, onion,
                   estimate, fallback>>

\* the try block after the response: record, then return data
RecordInTry ==
    /\ pc = "record"
    /\ IF RecordingEnabled(config)
       THEN \/ /\ storage' = sendRequestRecord(storage, config, Flatten(config)[sel],
                                               tokensUsed, now)
               /\ nRecord' = nRecord + 1
               /\ pc' = "done"
               /\ result' = "ok"
               /\ winLog' = LogAppend(winLog, "ok")
               /\ err' = err
            \/ /\ config.storeMayFail
               /\ nRecord' = nRecord + 1
               /\ err' = "Storage error"
               /\ pc' = "catch"
               /\ UNCHANGED <<storage, result, winLog>>
       ELSE /\ pc' = "done"
            /\ result' = "ok"
            /\ winLog' = LogAppend(winLog, "ok")
            /\ UNCHANGED <<storage, nRecord, err>>
    /\ UNCHANGED <<config, now, calls, req, sel, outcome, tokensUsed, nFetch,
                   preStore, selTime, winMinute, winCount,
                   race, onion,
                   estimate, fallback>>

\* the catch block: record with 0, then rethrow
RecordInCatch ==
    /\ pc = "catch"
    /\ IF RecordingEnabled(config)
       THEN \/ /\ storage' = sendRequestRecord(storage, config, Flatten(config)[sel],
                                               0, now)
               /\ nRecord' = nRecord + 1
               /\ result' = err
            \/ /\ config.storeMayFail
               /\ nRecord' = nRecord + 1
               /\ result' = "Storage error"
               /\ UNCHANGED storage
       ELSE /\ result' = err
            /\ UNCHANGED <<storage, nRecord>>
    /\ winLog' = LogAppend(winLog, "sendRequest threw")
    /\ pc' = "done"
    /\ UNCHANGED <<config, now, calls, req, sel, outcome, tokensUsed, err,
                   nFetch, preStore, selTime, winMinute, winCount,
                   race, onion,
                   estimate, fallback>>

Next ==
    \/ Tick
    \/ \E r \in Requests : ChatSelect(r)
    \/ \E o \in {"http", "network", "json"} : FetchFails(o)
    \/ \E p \in PromptTokens : FetchSucceeds(p)
    \/ RecordInTry
    \/ RecordInCatch

Spec == Init /\ [][Next]_vars

(***************************************************************************)
(* chat under the scheduling of the event loop: a fetch that was issued    *)
(* settles, and a continuation that is ready, the recording after the      *)
(* response or the catch block, runs.                                      *)
(***************************************************************************)
LiveConfigs == {CfgSingle, CfgTwo}

InitLive == InitOf(LiveConfigs)

FetchSettles ==
    \/ \E o \in {"http", "network", "json"} : FetchFails(o)
    \/ \E promptTokens \in PromptTokens : FetchSucceeds(promptTokens)

SpecLive ==
    /\ InitLive
    /\ [][Next]_vars
    /\ WF_vars(FetchSettles)
    /\ WF_vars(RecordInTry)
    /\ WF_vars(RecordInCatch)

(***************************************************************************)
(* The manager used directly, as the tests of the strategy use it:         *)
(* selectProvider(config, rateLimitManager, request) and                   *)
(* rateLimitManager.recordRequest(account, model, tokens).                 *)
(***************************************************************************)
RecordTokens == {0, 3}

MgrSelect(request) ==
    /\ \E o \in selectProvider(config, TRUE, storage, TRUE, request, now) :
         /\ storage' = o.store
         /\ sel' = o.provider
         /\ result' = IF o.err # "" THEN o.err
                      ELSE IF o.provider = 0 THEN "undefined" ELSE "selected"
    /\ req' = request
    /\ preStore' = storage
    /\ selTime' = now
    /\ winMinute' = Minute(now)
    /\ winCount' = CountNow
    /\ UNCHANGED <<config, now, calls, pc, outcome, tokensUsed, err, nFetch, nRecord,
                   winLog,
                   race, onion,
                   estimate, fallback>>

\* a recording forgets the last select
MgrRecord(i, tokens) ==
    /\ calls < MaxRecords
    /\ i \in 1..Len(Flatten(config))
    /\ storage' = recordRequest(storage, config.hasIncrement, Flatten(config)[i].account,
                                Flatten(config)[i].model, tokens, now)
    /\ calls' = calls + 1
    /\ winMinute' = Minute(now)
    /\ winCount' = [CountNow EXCEPT ![i] = @ + 1]
    /\ sel' = 0
    /\ result' = ""
    /\ req' = ReqEmpty
    /\ preStore' = EmptyStore
    /\ selTime' = StartTime
    /\ UNCHANGED <<config, now, pc, outcome, tokensUsed, err, nFetch, nRecord,
                   winLog,
                   race, onion,
                   estimate, fallback>>

NextMgr ==
    \/ Tick
    \/ \E r \in Requests : MgrSelect(r)
    \/ \E i \in 1..Len(Flatten(config)), tokens \in RecordTokens : MgrRecord(i, tokens)

InitMgr == InitOf(MgrConfigs)

SpecMgr == InitMgr /\ [][NextMgr]_vars

\* the same operations on configurations of two pairs
InitPairs == InitOf(PairConfigs)

SpecPairs == InitPairs /\ [][NextMgr]_vars

(***************************************************************************)
(* selectProvider called with every kind of configuration: providers with  *)
(* a type tag, providers without accounts, strategies it does not know,    *)
(* and with or without a manager.                                          *)
(***************************************************************************)
\* ProviderEndpoints[provider]; "" when the map has no such key, for which
\* getProviderEndpoint throws
getProviderEndpoint(provider) ==
    CASE provider = "openai"     -> "https://api.openai.com/v1"
      [] provider = "google"     -> "https://generativelanguage.googleapis.com/v1beta/openai"
      [] provider = "anthropic"  -> "https://api.anthropic.com/v1"
      [] provider = "openrouter" -> "https://openrouter.ai/api/v1"
      [] provider = "groq"       -> "https://api.groq.com/openai/v1"
      [] provider = "cerebras"   -> "https://api.cerebras.ai/v1"
      [] provider = "dashscope"  -> "https://dashscope.aliyuncs.com/compatible-mode/v1"
      [] provider = "ollama"     -> "http://localhost:11434/v1"
      [] OTHER                   -> ""

\* a provider with its type tag; "" for a tag or an endpoint that is not set
TypedProvider(type, endpoint, accounts) ==
    [type |-> type, endpoint |-> endpoint, accounts |-> accounts]

AccountC == Account(KeyC, <<ModelM>>, FALSE, NoLimits)

\* providers with an endpoint, with a type only, with neither, with a type
\* the endpoint map does not know
CfgTyped == Config(<<TypedProvider("openai", "https://api.test.com", <<AccountU>>),
                     TypedProvider("anthropic", "", <<AccountC>>)>>,
                   "random", TRUE, FALSE)
CfgUntyped == Config(<<TypedProvider("", "", <<AccountC>>)>>, "random", TRUE, FALSE)
CfgAzure == Config(<<TypedProvider("azure", "", <<AccountC>>)>>,
                   "rate-limit-aware", TRUE, FALSE)
\* a strategy selectProvider does not know, and no strategy
CfgLeastLoaded == Config(<<Provider("https://api.test.com", <<AccountA2, AccountB2>>)>>,
                         "least-loaded", TRUE, FALSE)
CfgNoStrategy == Config(<<Provider("https://api.test.com", <<AccountA2>>)>>,
                        "undefined", TRUE, FALSE)
\* providers without accounts, accounts without models
CfgRandomNoAccounts == Config(<<Provider("https://api.test.com", <<>>)>>,
                              "random", TRUE, FALSE)
CfgNoModelsOfAccount ==
    Config(<<Provider("https://api.test.com", <<Account(KeyA, <<>>, FALSE, NoLimits)>>)>>,
           "undefined", TRUE, FALSE)
CfgRandomNoProviders == Config(<<>>, "random", TRUE, FALSE)

\* a configuration and whether selectProvider is handed a manager
SelectCall(cfg, hasManager) ==
    [providers |-> cfg.providers, strategy |-> cfg.strategy,
     hasIncrement |-> cfg.hasIncrement, storeMayFail |-> cfg.storeMayFail,
     hasManager |-> hasManager]

SelectCalls ==
    {SelectCall(c, TRUE) :
        c \in {CfgTyped, CfgUntyped, CfgAzure, CfgLeastLoaded, CfgNoStrategy,
               CfgRandomNoAccounts, CfgNoModelsOfAccount, CfgRandomNoProviders,
               CfgRandom, CfgSingle, CfgNoModels, CfgNoProviders}}
    \cup {SelectCall(c, FALSE) : c \in {CfgSingle, CfgLeastLoaded, CfgRandom}}

\* selectProvider(config, rateLimitManager, request), the manager being optional
SelSelect(request) ==
    /\ \E o \in selectProvider(config, config.hasManager, storage, TRUE, request, now) :
         /\ storage' = o.store
         /\ sel' = o.provider
         /\ result' = IF o.err # "" THEN o.err
                      ELSE IF o.provider = 0 THEN "undefined" ELSE "selected"
    /\ req' = request
    /\ preStore' = storage
    /\ selTime' = now
    /\ winMinute' = Minute(now)
    /\ winCount' = CountNow
    /\ UNCHANGED <<config, now, calls, pc, outcome, tokensUsed, err, nFetch, nRecord,
                   winLog, race, onion,
                   estimate, fallback>>

NextSelect ==
    \/ Tick
    \/ \E r \in Requests : SelSelect(r)
    \/ \E i \in 1..Len(Flatten(config)), tokens \in RecordTokens : MgrRecord(i, tokens)

InitSelect == InitOf(SelectCalls)

SpecSelect == InitSelect /\ [][NextSelect]_vars

(***************************************************************************)
(* The manager's operations applied to stored usage of any shape: the      *)
(* router's single pair starts with no entry or with an entry a supplied   *)
(* store already holds, whose reset indices are the current ones or the    *)
(* previous ones, each on its own.                                         *)
(***************************************************************************)
\* every combination of set and unset limits, and a limit of zero
UsageLimits ==
    {[rpm |-> r, tpm |-> t, rpd |-> d] :
        r \in {Undefined, 0, 2}, t \in {Undefined, 4}, d \in {Undefined, 2}}

UsageAccounts ==
    {Account(KeyA, <<ModelM>>, TRUE, l) : l \in UsageLimits}
        \cup {Account(KeyA, <<ModelM>>, FALSE, NoLimits)}

UsageConfigs ==
    {Config(<<Provider("https://api.test.com", <<a>>)>>, "rate-limit-aware", h, FALSE) :
        a \in UsageAccounts, h \in BOOLEAN}

\* UsageData a store may hold when the router starts
StoredUsages ==
    [requestsThisMinute : {0, 1},
     tokensThisMinute   : {0, 3},
     requestsToday      : {0, 1},
     lastResetTime      : [minute : {StartTime \div MsPerMinute - 1,
                                     StartTime \div MsPerMinute},
                           day    : {StartTime \div MsPerDay - 1,
                                     StartTime \div MsPerDay}]]

\* the router's only pair and its identity
UsagePair == Flatten(config)[1]

UsageId == getAccountModelIdentifier(UsagePair.account, UsagePair.model)

UsageStores ==
    {EmptyStore}
        \cup {storagePut(EmptyStore, hash(KeyA \o <<Dash>> \o ModelM), u) :
                u \in StoredUsages}

InitUsage ==
    /\ config \in UsageConfigs
    /\ now = StartTime
    /\ storage \in UsageStores
    /\ calls = 0
    /\ pc = "idle"
    /\ req = ReqEmpty
    /\ sel = 0
    /\ outcome = "none"
    /\ tokensUsed = 0
    /\ err = ""
    /\ result = ""
    /\ nFetch = 0
    /\ nRecord = 0
    /\ preStore = EmptyStore
    /\ selTime = StartTime
    /\ winMinute = Minute(StartTime)
    /\ winLog = <<>>
    /\ winCount = ZeroCount(config)
    /\ race = RaceIdle(NewUsage(StartTime))
    /\ onion = OnionIdle
    /\ estimate = 0
    /\ fallback = EmptyStore

\* rateLimitManager.canHandleRequest(account, model, estimatedTokens)
UseCanHandle(request) ==
    LET r == canHandleRequest(storage, UsagePair.account, UsagePair.model,
                              estimateTokens(request), now)
    IN  /\ storage' = r.store
        /\ result' = IF r.ok THEN "admitted" ELSE "refused"
        /\ req' = request
        /\ tokensUsed' = 0
        /\ preStore' = storage
        /\ selTime' = now
        /\ UNCHANGED <<config, now, calls, pc, sel, outcome, err, nFetch, nRecord,
                       winMinute, winLog, winCount,
                       race, onion,
                   estimate, fallback>>

\* rateLimitManager.getUsage(account, model)
UseGetUsage ==
    LET r == getCurrentUsage(storage, UsageId, now)
    IN  /\ storage' = r.store
        /\ result' = "read"
        /\ req' = ReqEmpty
        /\ tokensUsed' = 0
        /\ preStore' = storage
        /\ selTime' = now
        /\ UNCHANGED <<config, now, calls, pc, sel, outcome, err, nFetch, nRecord,
                       winMinute, winLog, winCount,
                       race, onion,
                   estimate, fallback>>

\* rateLimitManager.getAvailabilityScore(account, model)
UseScore ==
    LET r == getAvailabilityScore(storage, UsagePair.account, UsagePair.model, now)
    IN  /\ storage' = r.store
        /\ result' = "scored"
        /\ req' = ReqEmpty
        /\ tokensUsed' = 0
        /\ preStore' = storage
        /\ selTime' = now
        /\ UNCHANGED <<config, now, calls, pc, sel, outcome, err, nFetch, nRecord,
                       winMinute, winLog, winCount,
                       race, onion,
                   estimate, fallback>>

\* rateLimitManager.recordRequest(account, model, tokens)
UseRecord(tokens) ==
    /\ calls < MaxRecords
    /\ storage' = recordRequest(storage, config.hasIncrement, UsagePair.account,
                                UsagePair.model, tokens, now)
    /\ result' = "recorded"
    /\ req' = ReqEmpty
    /\ tokensUsed' = tokens
    /\ preStore' = storage
    /\ selTime' = now
    /\ calls' = calls + 1
    /\ UNCHANGED <<config, now, pc, sel, outcome, err, nFetch, nRecord,
                   winMinute, winLog, winCount,
                   race, onion,
                   estimate, fallback>>

NextUsage ==
    \/ Tick
    \/ \E r \in Requests : UseCanHandle(r)
    \/ UseGetUsage
    \/ UseScore
    \/ \E tokens \in RecordTokens : UseRecord(tokens)

SpecUsage == InitUsage /\ [][NextUsage]_vars

(***************************************************************************)
(* Calls in flight at once, within one minute.  Every await of the code is *)
(* a point where another caller may run: between selectProvider and the    *)
(* fetch's answer, between the answer and recordRequest, and, for a store  *)
(* without increment, between recordRequest's read and its write.  A store *)
(* without increment hands each caller its own copy of the entry.          *)
(***************************************************************************)
\* the router's account { rpm: 2 } over a store with or without increment
RaceConfigs ==
    {Config(<<Provider("https://api.test.com", <<AccountA2>>)>>,
            "rate-limit-aware", h, FALSE) : h \in BOOLEAN}

\* the pair has no entry, or one of the current minute with one unit of quota left
RaceUsages ==
    {NewUsage(StartTime),
     [NewUsage(StartTime) EXCEPT !.requestsThisMinute = 1,
                                 !.tokensThisMinute = 3,
                                 !.requestsToday = 1]}

InitRace ==
    /\ config \in RaceConfigs
    /\ now = StartTime
    /\ \E u \in RaceUsages :
         /\ storage \in {s \in {EmptyStore, storagePut(EmptyStore, UsageId, u)} :
                           u.requestsThisMinute > 0 => s # EmptyStore}
         /\ race = RaceIdle(u)
    /\ onion = OnionIdle
    /\ estimate = 0
    /\ fallback = EmptyStore
    /\ calls = 0
    /\ pc = "idle"
    /\ req = ReqEmpty
    /\ sel = 0
    /\ outcome = "none"
    /\ tokensUsed = 0
    /\ err = ""
    /\ result = ""
    /\ nFetch = 0
    /\ nRecord = 0
    /\ preStore = EmptyStore
    /\ selTime = StartTime
    /\ winMinute = Minute(StartTime)
    /\ winLog = <<>>
    /\ winCount = ZeroCount(config)

\* every caller is inside a direct recordRequest at once
AllRecording(r) == \A p \in Procs : r.pc[p] \in {"record", "write"} /\ r.direct[p]

\* recordRequest(account, model, tokens) is called; it runs up to its first await
RaceRecordCall(p, tokens) ==
    /\ race.pc[p] = "idle"
    /\ calls < MaxCalls
    /\ calls' = calls + 1
    /\ LET r == [race EXCEPT !.pc[p] = "record", !.id[p] = UsageId,
                             !.tokens[p] = tokens, !.direct[p] = TRUE,
                             !.directCalls = @ + 1]
       IN  race' = [r EXCEPT !.overlap = @ \/ AllRecording(r)]
    /\ UNCHANGED <<config, now, storage, pc, req, sel, outcome, tokensUsed, err,
                   result, nFetch, nRecord, preStore, selTime, winMinute, winLog,
                   winCount, onion,
                   estimate, fallback>>

\* chat: selectProvider; with a candidate the fetch is issued
RaceChat(p, request) ==
    /\ race.pc[p] = "idle"
    /\ calls < MaxCalls
    /\ calls' = calls + 1
    /\ \E o \in selectProvider(config, TRUE, storage, TRUE, request, now) :
         /\ storage' = o.store
         /\ race' = IF o.err = "" /\ o.provider # 0
                    THEN [race EXCEPT !.pc[p] = "fetch", !.sent = @ + 1]
                    ELSE race
    /\ UNCHANGED <<config, now, pc, req, sel, outcome, tokensUsed, err, result,
                   nFetch, nRecord, preStore, selTime, winMinute, winLog, winCount, onion,
                   estimate, fallback>>

\* the fetch answers (prompt tokens reported) or fails (0): sendRequest calls
\* recordRequest(account, tokensUsed)
RaceFetch(p, reported) ==
    /\ race.pc[p] = "fetch"
    /\ RecordingEnabled(config)
    /\ race' = [race EXCEPT !.pc[p] = "record",
                            !.id[p] = getAccountModelIdentifier(
                                          UsagePair.account, NumberToString(reported)),
                            !.tokens[p] = 0,
                            !.direct[p] = FALSE]
    /\ UNCHANGED <<config, now, storage, calls, pc, req, sel, outcome, tokensUsed,
                   err, result, nFetch, nRecord, preStore, selTime, winMinute, winLog,
                   winCount, onion,
                   estimate, fallback>>

\* caller p's recordRequest returns: its locals are gone, and a direct call
\* has added its request and tokens to what the pair's usage should be
Completed(r, p) ==
    LET counted == IF r.direct[p]
                   THEN [r EXCEPT !.expected.requestsThisMinute = @ + 1,
                                  !.expected.tokensThisMinute = @ + r.tokens[p],
                                  !.expected.requestsToday = @ + 1]
                   ELSE r
    IN  [counted EXCEPT !.pc[p] = "idle", !.id[p] = 0, !.tokens[p] = 0,
                        !.direct[p] = FALSE, !.local[p] = NewUsage(StartTime)]

\* a store without increment
UsesIncrementNever(cfg) == FALSE

\* if (this.storage.increment)
UsesIncrement(cfg) == cfg.hasIncrement

\* await this.storage.increment(accountId, 1, tokensUsed)
RaceIncrement(p) ==
    /\ race.pc[p] = "record"
    /\ UsesIncrement(config)
    /\ storage' = increment(storage, race.id[p], 1, race.tokens[p], now)
    /\ race' = Completed(race, p)
    /\ UNCHANGED <<config, now, calls, pc, req, sel, outcome, tokensUsed, err,
                   result, nFetch, nRecord, preStore, selTime, winMinute, winLog,
                   winCount, onion,
                   estimate, fallback>>

\* const usage = await this.getCurrentUsage(accountId)
RaceGet(p) ==
    /\ race.pc[p] = "record"
    /\ ~UsesIncrement(config)
    /\ LET cur == getCurrentUsage(storage, race.id[p], now)
       IN  /\ storage' = cur.store
           /\ race' = [race EXCEPT !.pc[p] = "write", !.local[p] = cur.usage]
    /\ UNCHANGED <<config, now, calls, pc, req, sel, outcome, tokensUsed, err,
                   result, nFetch, nRecord, preStore, selTime, winMinute, winLog,
                   winCount, onion,
                   estimate, fallback>>

\* the three additions, then await this.storage.set(accountId, usage)
RaceSet(p) ==
    /\ race.pc[p] = "write"
    /\ storage' = storagePut(storage, race.id[p],
                     [race.local[p] EXCEPT !.requestsThisMinute = @ + 1,
                                           !.tokensThisMinute = @ + race.tokens[p],
                                           !.requestsToday = @ + 1])
    /\ race' = Completed(race, p)
    /\ UNCHANGED <<config, now, calls, pc, req, sel, outcome, tokensUsed, err,
                   result, nFetch, nRecord, preStore, selTime, winMinute, winLog,
                   winCount, onion,
                   estimate, fallback>>

NextRace ==
    \/ \E p \in Procs, tokens \in RecordTokens : RaceRecordCall(p, tokens)
    \/ \E p \in Procs : RaceChat(p, ReqHi)
    \/ \E p \in Procs, reported \in PromptTokens : RaceFetch(p, reported)
    \/ \E p \in Procs : RaceIncrement(p)
    \/ \E p \in Procs : RaceGet(p)
    \/ \E p \in Procs : RaceSet(p)

SpecRace == InitRace /\ [][NextRace]_vars

(***************************************************************************)
(* AIRouter.chat with middlewares.  use() appends to the chain; chat runs  *)
(* dispatch(0, request).  onion.stack holds the dispatch(i, req) calls in  *)
(* progress, the innermost last; onion.chain is the middlewares constant   *)
(* of the call that ran last; onion.wrote tells whether the store was      *)
(* changed during that call; onion.ret is what the dispatch that returned  *)
(* last gave its caller; onion.log lists what ran in that call, in order.  *)
(* A step is the code between two awaits.                                  *)
(*                                                                         *)
(* A middleware is one of the shapes in the tests: "once" awaits next(req) *)
(* and returns its result, "twice" awaits next(req), then awaits next(req) *)
(* again inside a try and returns the second result, or the first when the *)
(* second call threw, "short" returns without calling next, "throws"       *)
(* throws before it would call next.  onion.ret is "ok" for a result and   *)
(* the message of the error for a rejection.                               *)
(***************************************************************************)
MiddlewareKinds == {"once", "twice", "short", "throws"}

MiddlewareError == "Middleware error"

\* the middleware reaches a call of next
CallsNextAlways(kind) == TRUE

CallsNext(kind) == kind \in {"once", "twice"}

\* chat's catch block: what chat rejects with when dispatch(0) rejected
chatCatchWrapped(error) == "Chat failed"

chatCatch(error) == error

OnionConfigs == {CfgSingle, CfgCustom, CfgRandom, CfgNoProviders}

Frame(i, at) == [i |-> i, at |-> at]

Event(ev, i) == [ev |-> ev, i |-> i]

Top(o) == o.stack[Len(o.stack)]

Logged(o, ev) == [o EXCEPT !.log = Append(@, Event(ev, Top(o).i))]

\* the innermost dispatch moves on to another await
At(o, at) == [o EXCEPT !.stack[Len(o.stack)].at = at]

\* the innermost dispatch returns ("ok") or throws ("error") to its caller;
\* the outermost one to the caller of chat
Returned(o, value) ==
    [o EXCEPT !.stack = SubSeq(@, 1, Len(@) - 1),
              !.ret = IF Len(o.stack) = 1 /\ value # "ok"
                      THEN chatCatch(value) ELSE value,
              !.status = IF Len(o.stack) = 1 THEN "done" ELSE @]

\* the index next hands to dispatch
NextLayerSkipping(i) == i + 2

NextLayer(i) == i + 1

\* the call has left the store st
Stored(o, st) == [o EXCEPT !.wrote = @ \/ st # storage]

\* next(req) is called: dispatch(i + 1, nextReq) starts
Called(o) ==
    [o EXCEPT !.stack = Append(@, Frame(NextLayer(Top(o).i), "enter")),
              !.ret = "none"]

\* router.use(middleware), while no chat call is running
Use(kind) ==
    /\ onion.status # "running"
    /\ Len(onion.mw) < MaxMiddlewares
    /\ onion' = [onion EXCEPT !.mw = Append(@, kind)]
    /\ UNCHANGED <<config, now, storage, calls, pc, req, sel, outcome, tokensUsed,
                   err, result, nFetch, nRecord, preStore, selTime, winMinute,
                   winLog, winCount, race,
                   estimate, fallback>>

\* router.chat(request): dispatch(0, request)
OnionChat(request) ==
    /\ onion.status # "running"
    /\ calls < MaxChats
    /\ calls' = calls + 1
    /\ req' = request
    /\ onion' = [onion EXCEPT !.chain = onion.mw,
                              !.wrote = FALSE,
                              !.stack = <<Frame(0, "enter")>>,
                              !.log = <<>>,
                              !.ret = "none",
                              !.status = "running"]
    /\ UNCHANGED <<config, now, storage, pc, sel, outcome, tokensUsed, err, result,
                   nFetch, nRecord, preStore, selTime, winMinute, winLog, winCount,
                   race,
                   estimate, fallback>>

\* dispatch(i, req) with i < middlewares.length: the middleware runs up to its
\* first await, or to its return when it does not call next
MiddlewareEnters ==
    /\ onion.status = "running"
    /\ Top(onion).at = "enter"
    /\ Top(onion).i < Len(onion.chain)
    /\ LET o == Logged(onion, "pre")
           kind == onion.chain[Top(onion).i + 1]
       IN  onion' = IF CallsNext(kind) THEN Called(At(o, "next1"))
                    ELSE IF kind = "throws" THEN Returned(o, MiddlewareError)
                    ELSE Returned(o, "ok")
    /\ UNCHANGED <<config, now, storage, calls, pc, req, sel, outcome, tokensUsed,
                   err, result, nFetch, nRecord, preStore, selTime, winMinute,
                   winLog, winCount, race,
                   estimate, fallback>>

\* the next(req) a middleware awaits has settled: the rest of the middleware
\* runs, up to its next await or to its end
MiddlewareResumes ==
    /\ onion.status = "running"
    /\ Top(onion).at \in {"next1", "next2"}
    /\ LET kind == onion.chain[Top(onion).i + 1]
           post == Logged(onion, "post")
       IN  onion' =
             IF Top(onion).at = "next1"
             THEN IF onion.ret # "ok" THEN Returned(onion, onion.ret)
                  ELSE IF kind = "twice" THEN Called(At(onion, "next2"))
                  ELSE Returned(post, "ok")
             ELSE Returned(post, "ok")
    /\ UNCHANGED <<config, now, storage, calls, pc, req, sel, outcome, tokensUsed,
                   err, result, nFetch, nRecord, preStore, selTime, winMinute,
                   winLog, winCount, race,
                   estimate, fallback>>

\* dispatch(i, req) with i >= middlewares.length: selectProvider; without a
\* provider model chat throws, with one sendRequest issues the fetch
OnionSelect ==
    /\ onion.status = "running"
    /\ Top(onion).at = "enter"
    /\ Top(onion).i >= Len(onion.chain)
    /\ \E o \in selectProvider(config, TRUE, storage, TRUE, req, now) :
         /\ storage' = o.store
         /\ IF o.err = "" /\ o.provider # 0
            THEN /\ sel' = o.provider
                 /\ onion' = Stored(At(Logged(onion, "select"), "fetch"), o.store)
            ELSE /\ sel' = sel
                 /\ onion' = Stored(Returned(Logged(onion, "select"),
                                      IF o.err # "" THEN o.err
                                      ELSE "No provider model found for the request"),
                                  o.store)
    /\ UNCHANGED <<config, now, calls, pc, req, outcome, tokensUsed, err, result,
                   nFetch, nRecord, preStore, selTime, winMinute, winLog, winCount,
                   race,
                   estimate, fallback>>

\* the fetch of the last layer settles: a 2xx response whose body parses, a
\* status that is not ok, or a rejection
OnionFetch(o, promptTokens) ==
    /\ onion.status = "running"
    /\ Top(onion).at = "fetch"
    /\ tokensUsed' = IF o = "ok" THEN promptTokens ELSE 0
    /\ err' = IF o = "ok" THEN err ELSE DispatchError(o)
    /\ onion' = At(Logged(onion, "dispatch"), IF o = "ok" THEN "record" ELSE "catch")
    /\ UNCHANGED <<config, now, storage, calls, pc, req, sel, outcome, result,
                   nFetch, nRecord, preStore, selTime, winMinute, winLog, winCount,
                   race,
                   estimate, fallback>>

\* what sendRequest does once its catch block is through
sendRequestThrows(o, error) == Returned(o, error)

\* sendRequest after the fetch: the recording of the try block, then the
\* return of the data; the recording of the catch block, then the rethrow
OnionRecord ==
    /\ onion.status = "running"
    /\ Top(onion).at \in {"record", "catch"}
    /\ IF RecordingEnabled(config)
       THEN \/ /\ storage' = sendRequestRecord(storage, config, Flatten(config)[sel],
                                               tokensUsed, now)
               /\ err' = err
               /\ onion' = Stored(IF Top(onion).at = "record"
                                  THEN Returned(Logged(onion, "record"), "ok")
                                  ELSE sendRequestThrows(Logged(onion, "record"), err),
                                  storage')
            \/ /\ config.storeMayFail
               /\ storage' = storage
               /\ err' = "Storage error"
               /\ onion' = IF Top(onion).at = "record"
                           THEN At(Logged(onion, "record"), "catch")
                           ELSE sendRequestThrows(Logged(onion, "record"),
                                                  "Storage error")
       ELSE /\ storage' = storage
            /\ err' = err
            /\ onion' = IF Top(onion).at = "record"
                        THEN Returned(onion, "ok")
                        ELSE sendRequestThrows(onion, err)
    /\ UNCHANGED <<config, now, calls, pc, req, sel, outcome, tokensUsed,
                   result, nFetch, nRecord, preStore, selTime, winMinute, winLog,
                   winCount, race,
                   estimate, fallback>>

NextOnion ==
    \/ \E kind \in MiddlewareKinds : Use(kind)
    \/ \E r \in Requests : OnionChat(r)
    \/ MiddlewareEnters
    \/ MiddlewareResumes
    \/ OnionSelect
    \/ \E o \in {"ok", "http", "network"}, p \in PromptTokens :
         OnionFetch(o, p)
    \/ OnionRecord

InitOnion == InitOf(OnionConfigs)

SpecOnion == InitOnion /\ [][NextOnion]_vars

(***************************************************************************)
(* Load distribution, as its test drives it: two accounts of identical     *)
(* limits; selectProvider, then recordRequest for the account and model    *)
(* that were selected, with the token amount of the first recording, and   *)
(* again.  winCount counts the recordings of the minute per candidate.     *)
(***************************************************************************)
TwoAccounts(hasRateLimit, limits) ==
    Config(<<Provider("https://api.test.com",
                      <<Account(KeyA, <<ModelM>>, hasRateLimit, limits),
                        Account(KeyB, <<ModelM>>, hasRateLimit, limits)>>)>>,
           "rate-limit-aware", TRUE, FALSE)

CfgTwoTpm  == TwoAccounts(TRUE, [NoLimits EXCEPT !.tpm = 4])
CfgTwoRpd  == TwoAccounts(TRUE, [NoLimits EXCEPT !.rpd = 3])
CfgTwoAll  == TwoAccounts(TRUE, [rpm |-> 3, tpm |-> 7, rpd |-> 4])
CfgTwoFree == TwoAccounts(FALSE, NoLimits)

LoadConfigs == {CfgTwo, CfgTwoTpm, CfgTwoRpd, CfgTwoAll, CfgTwoFree}

\* selectProvider(config, rateLimitManager, chatRequest)
LoadSelect(request) ==
    /\ pc = "idle"
    /\ calls < MaxCalls
    /\ \E o \in selectProvider(config, TRUE, storage, TRUE, request, now) :
         /\ storage' = o.store
         /\ sel' = o.provider
         /\ result' = IF o.err # "" THEN o.err
                      ELSE IF o.provider = 0 THEN "undefined" ELSE "selected"
         /\ pc' = IF o.err = "" /\ o.provider # 0 THEN "selected" ELSE "idle"
    /\ req' = request
    /\ preStore' = storage
    /\ selTime' = now
    /\ winMinute' = Minute(now)
    /\ winCount' = CountNow
    /\ UNCHANGED <<config, now, calls, outcome, tokensUsed, err, nFetch, nRecord,
                   winLog, race, onion,
                   estimate, fallback>>

\* recordRequest(account, model, tokens) for the candidate that was selected
LoadRecord(tokens) ==
    /\ pc = "selected"
    /\ calls = 0 \/ tokens = tokensUsed
    /\ storage' = recordRequest(storage, config.hasIncrement, Flatten(config)[sel].account,
                                Flatten(config)[sel].model, tokens, now)
    /\ tokensUsed' = tokens
    /\ calls' = calls + 1
    /\ winMinute' = Minute(now)
    /\ winCount' = [CountNow EXCEPT ![sel] = @ + 1]
    /\ pc' = "idle"
    /\ UNCHANGED <<config, now, req, sel, outcome, err, result, nFetch, nRecord,
                   preStore, selTime, winLog, race, onion,
                   estimate, fallback>>

NextLoad ==
    \/ Tick
    \/ \E r \in Requests : LoadSelect(r)
    \/ \E tokens \in RecordTokens : LoadRecord(tokens)

InitLoad == InitOf(LoadConfigs)

SpecLoad == InitLoad /\ [][NextLoad]_vars

(***************************************************************************)
(* The token estimator applied to requests of every shape: a request is    *)
(* put together message by message and code point by code point, and       *)
(* estimateInputTokens is applied to each.                                 *)
(***************************************************************************)
\* 'H' (Latin), U+4F60 (CJK ideograph), U+1F600 (emoji), U+3000 (ideographic
\* space, outside the CJK ranges of the estimator)
CodePoints == {72, 20320, 128512, 12288}

RECURSIVE CodePointCount(_, _)
CodePointCount(messages, i) ==
    IF i > Len(messages) THEN 0
    ELSE Len(ContentOrEmpty(messages[i])) + CodePointCount(messages, i + 1)

\* one more message: with an empty content, or without content
TokMessage(hasContent) ==
    /\ Len(req.messages) < MaxMessages
    /\ req' = [messages |-> Append(req.messages,
                                   IF hasContent
                                   THEN [role |-> "user", content |-> <<>>]
                                   ELSE [role |-> "user"])]
    /\ estimate' = estimateInputTokens(req')
    /\ UNCHANGED <<config, now, storage, calls, pc, sel, outcome, tokensUsed, err,
                   result, nFetch, nRecord, preStore, selTime, winMinute, winLog,
                   winCount, race, onion, fallback>>

\* one more code point in the content of the last message
TokChar(code) ==
    /\ Len(req.messages) > 0
    /\ "content" \in DOMAIN req.messages[Len(req.messages)]
    /\ CodePointCount(req.messages, 1) < MaxLen
    /\ req' = [messages |-> [req.messages EXCEPT ![Len(req.messages)].content =
                                                    Append(@, code)]]
    /\ estimate' = estimateInputTokens(req')
    /\ UNCHANGED <<config, now, storage, calls, pc, sel, outcome, tokensUsed, err,
                   result, nFetch, nRecord, preStore, selTime, winMinute, winLog,
                   winCount, race, onion, fallback>>

NextTokens ==
    \/ \E hasContent \in BOOLEAN : TokMessage(hasContent)
    \/ \E code \in CodePoints : TokChar(code)

InitTokens == InitOf({CfgSingle})

SpecTokens == InitTokens /\ [][NextTokens]_vars

(***************************************************************************)
(* chat on a router whose store already holds usage when the router is     *)
(* constructed (config.usageStorage is the caller's store): the first pair *)
(* has used up its requests, in the current minute or in the one before.   *)
(* The strategies include one that selectProvider does not know.           *)
(***************************************************************************)
FailConfigs == {CfgSingle, CfgTokens, CfgNoProviders, CfgLeastLoaded}

FailUsages ==
    [requestsThisMinute : {2},
     tokensThisMinute   : {3},
     requestsToday      : {2, 4},
     lastResetTime      : [minute : {StartTime \div MsPerMinute - 1,
                                     StartTime \div MsPerMinute},
                           day    : {StartTime \div MsPerDay}]]

FailStores(cfg) ==
    {EmptyStore}
        \cup (IF Len(Flatten(cfg)) = 0 THEN {}
              ELSE {storagePut(EmptyStore,
                               getAccountModelIdentifier(Flatten(cfg)[1].account,
                                                         Flatten(cfg)[1].model), u) :
                      u \in FailUsages})

\* a router constructed over a store that may hold usage of its first pair
InitStored(configs) ==
    /\ config \in configs
    /\ now = StartTime
    /\ storage \in FailStores(config)
    /\ calls = 0
    /\ pc = "idle"
    /\ req = ReqEmpty
    /\ sel = 0
    /\ outcome = "none"
    /\ tokensUsed = 0
    /\ err = ""
    /\ result = ""
    /\ nFetch = 0
    /\ nRecord = 0
    /\ preStore = storage
    /\ selTime = StartTime
    /\ winMinute = Minute(StartTime)
    /\ winLog = <<>>
    /\ winCount = ZeroCount(config)
    /\ race = RaceIdle(NewUsage(StartTime))
    /\ onion = OnionIdle
    /\ estimate = 0
    /\ fallback = EmptyStore

InitFail == InitStored(FailConfigs)

SpecFail == InitFail /\ [][Next]_vars

(***************************************************************************)
(* chat under the strategy 'random', or none, on accounts that carry       *)
(* limits, over a store that says the first account has used them up; a    *)
(* router of the strategy 'rate-limit-aware' beside them.                  *)
(***************************************************************************)
RandomConfigs == {CfgRandom, CfgNoStrategy, CfgSingle}

InitRandom == InitStored(RandomConfigs)

SpecRandom == InitRandom /\ [][Next]_vars

(***************************************************************************)
(* Two managers given the same recordRequest calls at the same times: one  *)
(* over a store with increment (storage), one over a store with get and    *)
(* set only (fallback).  The calls are awaited one after the other.        *)
(***************************************************************************)
PathRecord(i, tokens) ==
    /\ calls < MaxRecords
    /\ i \in 1..Len(Flatten(config))
    /\ storage' = recordRequest(storage, TRUE, Flatten(config)[i].account,
                                Flatten(config)[i].model, tokens, now)
    /\ fallback' = recordRequest(fallback, FALSE, Flatten(config)[i].account,
                                 Flatten(config)[i].model, tokens, now)
    /\ calls' = calls + 1
    /\ sel' = i
    /\ tokensUsed' = tokens
    /\ UNCHANGED <<config, now, pc, req, outcome, err, result, nFetch, nRecord,
                   preStore, selTime, winMinute, winLog, winCount, race, onion,
                   estimate>>

NextPaths ==
    \/ Tick
    \/ \E i \in 1..Len(Flatten(config)), tokens \in RecordTokens : PathRecord(i, tokens)

InitPaths == InitOf({CfgSingle, CfgTwo, CfgMixed})

SpecPaths == InitPaths /\ [][NextPaths]_vars

(***************************************************************************)
(* Readings of the state the properties below are stated with.             *)
(***************************************************************************)
AllAccountsExhausted == "All accounts have exceeded their rate limits"

\* no chat call begun in the window ended with sendRequest throwing
NoDispatchFailed == \A k \in 1..Len(winLog) : winLog[k] # "sendRequest threw"

Candidates == Flatten(config)

IdOf(i) == getAccountModelIdentifier(Candidates[i].account, Candidates[i].model)

LimitsOf(i) == Candidates[i].account.rateLimit

Limited(i) == Candidates[i].account.hasRateLimit

\* the usage of candidate i as the manager reads it from store st at time t
UsageOf(st, i, t) == getCurrentUsage(st, IdOf(i), t).usage

\* canHandle of candidate i in the usage state the last select read
Admissible(i) ==
    canHandleRequest(preStore, Candidates[i].account, Candidates[i].model,
                     estimateTokens(req), selTime).ok

\* availabilityScore of candidate i in that state
ScoreOf(i) ==
    getAvailabilityScore(preStore, Candidates[i].account, Candidates[i].model,
                         selTime).score

ScoreLess(a, b) == a.num * b.den < b.num * a.den

ScoreEqual(a, b) == a.num * b.den = b.num * a.den

(***************************************************************************)
(* C1: with one provider, one account whose only limit is rpm = 2 and one  *)
(* model, of the chat calls begun in one minute, the provider answering    *)
(* each dispatch, the first and the second succeed and the third fails     *)
(* with 'All accounts have exceeded their rate limits'.                    *)
(***************************************************************************)
C1_ThirdCallExhausted ==
    (config = CfgSingle /\ NoDispatchFailed) =>
        \A k \in 1..Len(winLog) :
            /\ (k <= 2 => winLog[k] = "ok")
            /\ (k >= 3 => winLog[k] = AllAccountsExhausted)

(***************************************************************************)
(* C2: under 'rate-limit-aware' the candidate a select returns satisfied   *)
(* canHandle, for the request's estimated tokens, in the usage state that  *)
(* select read.                                                            *)
(***************************************************************************)
C2_SelectedWasAdmissible ==
    (config.strategy = "rate-limit-aware" /\ result = "selected") => Admissible(sel)

\* a select that passed over an earlier candidate canHandle refused
C2_Witness ==
    /\ config.strategy = "rate-limit-aware"
    /\ result = "selected"
    /\ \E j \in 1..Len(Candidates) : j < sel /\ ~Admissible(j)

(***************************************************************************)
(* C3: under 'rate-limit-aware' and sequential chat calls the request      *)
(* limits are never exceeded: for every pair with a limit, the requests    *)
(* sent to it in one minute and its stored requestsThisMinute are at most  *)
(* rpm, and its stored requestsToday is at most rpd.                       *)
(***************************************************************************)
C3_RequestLimitsRespected ==
    config.strategy = "rate-limit-aware" =>
        \A i \in 1..Len(Candidates) :
            Limited(i) =>
                /\ LimitsOf(i).rpm # Undefined =>
                     /\ winCount[i] <= LimitsOf(i).rpm
                     /\ IdOf(i) \in DOMAIN storage =>
                          storage[IdOf(i)].requestsThisMinute <= LimitsOf(i).rpm
                /\ (LimitsOf(i).rpd # Undefined /\ IdOf(i) \in DOMAIN storage) =>
                     storage[IdOf(i)].requestsToday <= LimitsOf(i).rpd

C5_RecordedExactlyOnce ==
    (pc = "done" /\ nFetch = 1) => nRecord = 1

(***************************************************************************)
(* C5, amended: per dispatch attempt recordRequest is invoked once under   *)
(* 'rate-limit-aware', and a second time, from the catch block, only when  *)
(* the recording that follows a 2xx response itself fails; under any other *)
(* strategy it is not invoked.                                             *)
(***************************************************************************)
C5_RecordedPerStrategy ==
    (pc = "done" /\ nFetch = 1) =>
        IF config.strategy = "rate-limit-aware"
        THEN \/ nRecord = 1
             \/ nRecord = 2 /\ outcome = "ok" /\ config.storeMayFail
        ELSE nRecord = 0

\* the recording after a 2xx response failed and the catch block recorded again
C5_Witness ==
    /\ pc = "done"
    /\ nFetch = 1
    /\ outcome = "ok"
    /\ nRecord = 2

(***************************************************************************)
(* C6: after a failed dispatch (non-2xx response or network error) the     *)
(* identity that was used has requestsThisMinute and requestsToday exactly *)
(* 1 higher than before and tokensThisMinute unchanged.                    *)
(***************************************************************************)
C6_FailedDispatchCounted ==
    (/\ config.strategy = "rate-limit-aware"
     /\ pc = "done"
     /\ outcome \in {"http", "network"}
     /\ result = DispatchError(outcome)
     /\ Minute(now) = Minute(selTime))
    => LET before == UsageOf(preStore, sel, selTime)
           after  == UsageOf(storage, sel, now)
       IN  /\ after.requestsThisMinute = before.requestsThisMinute + 1
           /\ after.requestsToday = before.requestsToday + 1
           /\ after.tokensThisMinute = before.tokensThisMinute

(***************************************************************************)
(* C7: when a dispatch fails, the caller of chat gets the original         *)
(* dispatch error unchanged, the recording of the attempt has completed    *)
(* by then, and the usage of the identity that was used is on record.      *)
(***************************************************************************)
C7_OriginalErrorAfterRecording ==
    (/\ config.strategy = "rate-limit-aware"
     /\ pc = "done"
     /\ outcome \in {"http", "network"})
    => /\ result = DispatchError(outcome)
       /\ nRecord = 1
       /\ IdOf(sel) \in DOMAIN storage

(***************************************************************************)
(* C8: under 'rate-limit-aware' a select returns an admissible candidate   *)
(* whose availabilityScore is the maximum over the admissible candidates,  *)
(* and of those with the maximum the first in flattening order.            *)
(***************************************************************************)
C8_MaxScoreFirstInOrder ==
    (config.strategy = "rate-limit-aware" /\ result = "selected") =>
        /\ Admissible(sel)
        /\ \A j \in 1..Len(Candidates) :
             Admissible(j) =>
                /\ ~ScoreLess(ScoreOf(sel), ScoreOf(j))
                /\ ScoreEqual(ScoreOf(sel), ScoreOf(j)) => sel <= j

\* the selected candidate beats an earlier admissible one on score and wins a
\* tie against a later one
C8_Witness ==
    /\ config.strategy = "rate-limit-aware"
    /\ result = "selected"
    /\ \E j \in 1..Len(Candidates) :
         j < sel /\ Admissible(j) /\ ScoreLess(ScoreOf(j), ScoreOf(sel))
    /\ \E k \in 1..Len(Candidates) :
         k > sel /\ Admissible(k) /\ ScoreEqual(ScoreOf(k), ScoreOf(sel))

(***************************************************************************)
(* C9: with two accounts A and B of rpm = 2 each, once 2 requests have     *)
(* been recorded against A in the current minute (and fewer than 2 against *)
(* B), a select returns the candidate of B.                                *)
(***************************************************************************)
C9_RotatesToSecondAccount ==
    (config = CfgTwo /\ result # "" /\ winCount[1] >= 2 /\ winCount[2] < 2) =>
        /\ result = "selected"
        /\ Candidates[sel].apiKey = KeyB

C9_Witness ==
    /\ config = CfgTwo
    /\ result = "selected"
    /\ winCount[1] = 2
    /\ Candidates[sel].apiKey = KeyB

(***************************************************************************)
(* C10: under 'rate-limit-aware' a select fails with 'All accounts have    *)
(* exceeded their rate limits' exactly when canHandle refuses every        *)
(* candidate; with two accounts of rpm = 2 each, of the chat calls begun   *)
(* in one minute, the provider answering each dispatch, the first four     *)
(* succeed and the fifth fails with that error.                            *)
(***************************************************************************)
C10_ExhaustedWhenAllRefused ==
    /\ (config.strategy = "rate-limit-aware" /\ calls > 0 /\ Len(Candidates) > 0
           /\ result # "Storage error")
       => (result = AllAccountsExhausted
             <=> (\A j \in 1..Len(Candidates) : ~Admissible(j)))
    /\ (config = CfgTwo /\ NoDispatchFailed) =>
         \A k \in 1..Len(winLog) :
            /\ (k <= 4 => winLog[k] = "ok")
            /\ (k >= 5 => winLog[k] = AllAccountsExhausted)

(***************************************************************************)
(* Readings of one operation on a stored usage: the entry the operation    *)
(* found, the entry it left, and the clock reading it used.                *)
(***************************************************************************)
UsageLimit == UsagePair.account.rateLimit

CurrentMinute == selTime \div MsPerMinute

CurrentDay == selTime \div MsPerDay

\* the operation went through getCurrentUsage or increment
ReadsUsage ==
    \/ result \in {"read", "recorded"}
    \/ result \in {"admitted", "refused", "scored"} /\ UsagePair.account.hasRateLimit

\* the usage a read at the operation's time returns from store st
UsageRead(st) == getCurrentUsage(st, UsageId, selTime).usage

RecordedRequests == IF result = "recorded" THEN 1 ELSE 0

RecordedTokens == IF result = "recorded" THEN tokensUsed ELSE 0

(***************************************************************************)
(* C11: canHandle is true for an account without rateLimit; otherwise it   *)
(* is false exactly when a configured ceiling is violated: rpm set and     *)
(* requestsThisMinute >= rpm, tpm set and tokensThisMinute + estimate >    *)
(* tpm, or rpd set and requestsToday >= rpd.                               *)
(***************************************************************************)
C11_RefusedIffCeilingViolated ==
    result \in {"admitted", "refused"} =>
        IF ~UsagePair.account.hasRateLimit THEN result = "admitted"
        ELSE LET usage == UsageRead(preStore)
             IN  (result = "refused") <=>
                   \/ UsageLimit.rpm # Undefined
                        /\ usage.requestsThisMinute >= UsageLimit.rpm
                   \/ UsageLimit.tpm # Undefined
                        /\ usage.tokensThisMinute + estimateTokens(req) > UsageLimit.tpm
                   \/ UsageLimit.rpd # Undefined
                        /\ usage.requestsToday >= UsageLimit.rpd

\* a request whose tokens bring the sum exactly to tpm is admitted
C11_Witness ==
    /\ result = "admitted"
    /\ UsagePair.account.hasRateLimit
    /\ UsageLimit.tpm # Undefined
    /\ UsageRead(preStore).tokensThisMinute + estimateTokens(req) = UsageLimit.tpm

(***************************************************************************)
(* C13: a recordRequest with T tokens made in the minute and day bucket of *)
(* the stored entry (or on a key without entry) adds 1 to                  *)
(* requestsThisMinute, T to tokensThisMinute and 1 to requestsToday, as a  *)
(* following getUsage reads them.                                          *)
(***************************************************************************)
C13_RecordAddsOneAndTokens ==
    (/\ result = "recorded"
     /\ UsageId \in DOMAIN preStore =>
          preStore[UsageId].lastResetTime =
              [minute |-> CurrentMinute, day |-> CurrentDay])
    => LET before == IF UsageId \in DOMAIN preStore THEN preStore[UsageId]
                     ELSE NewUsage(selTime)
           after  == UsageRead(storage)
       IN  /\ after.requestsThisMinute = before.requestsThisMinute + 1
           /\ after.tokensThisMinute = before.tokensThisMinute + tokensUsed
           /\ after.requestsToday = before.requestsToday + 1

\* a second recording in a row, with tokens, on counters that are not zero
C13_Witness ==
    /\ result = "recorded"
    /\ calls >= 2
    /\ tokensUsed > 0
    /\ UsageId \in DOMAIN preStore
    /\ preStore[UsageId].lastResetTime = [minute |-> CurrentMinute, day |-> CurrentDay]
    /\ preStore[UsageId].requestsThisMinute >= 2
    /\ storage[UsageId].requestsThisMinute = preStore[UsageId].requestsThisMinute + 1

(***************************************************************************)
(* C14: when the stored minute index is not the current one, a read or an  *)
(* increment leaves requestsThisMinute and tokensThisMinute at the deltas  *)
(* applied to zero and the stored minute index current; when the day is    *)
(* unchanged, requestsToday keeps its value plus the delta.                *)
(***************************************************************************)
C14_MinuteRolloverZeroesMinuteCounters ==
    (/\ ReadsUsage
     /\ UsageId \in DOMAIN preStore
     /\ preStore[UsageId].lastResetTime.minute # CurrentMinute)
    => /\ UsageId \in DOMAIN storage
       /\ storage[UsageId].requestsThisMinute = RecordedRequests
       /\ storage[UsageId].tokensThisMinute = RecordedTokens
       /\ storage[UsageId].lastResetTime.minute = CurrentMinute
       /\ preStore[UsageId].lastResetTime.day = CurrentDay =>
            storage[UsageId].requestsToday =
                preStore[UsageId].requestsToday + RecordedRequests

\* a recording across a minute boundary on counters that are not zero
C14_Witness ==
    /\ result = "recorded"
    /\ tokensUsed > 0
    /\ UsageId \in DOMAIN preStore
    /\ preStore[UsageId].lastResetTime.minute # CurrentMinute
    /\ preStore[UsageId].lastResetTime.day = CurrentDay
    /\ preStore[UsageId].requestsThisMinute > 0
    /\ preStore[UsageId].tokensThisMinute > 0
    /\ preStore[UsageId].requestsToday > 0
    /\ storage[UsageId].requestsThisMinute = 1

(***************************************************************************)
(* C15: when the stored day index is not the current one while the stored  *)
(* minute index is, a read or an increment zeroes requestsToday only and   *)
(* leaves the minute counters; a difference of the minute index alone      *)
(* never zeroes requestsToday.                                             *)
(***************************************************************************)
C15_DayAndMinuteResetIndependently ==
    (ReadsUsage /\ UsageId \in DOMAIN preStore)
    => LET old == preStore[UsageId]
           new == storage[UsageId]
       IN  /\ (old.lastResetTime.day # CurrentDay
                 /\ old.lastResetTime.minute = CurrentMinute)
              => /\ new.requestsToday = RecordedRequests
                 /\ new.lastResetTime.day = CurrentDay
                 /\ new.requestsThisMinute = old.requestsThisMinute + RecordedRequests
                 /\ new.tokensThisMinute = old.tokensThisMinute + RecordedTokens
           /\ (old.lastResetTime.minute # CurrentMinute
                 /\ old.lastResetTime.day = CurrentDay)
              => new.requestsToday = old.requestsToday + RecordedRequests

\* a read finds the day index stale, the minute index current, counters not zero
C15_Witness ==
    /\ result = "read"
    /\ UsageId \in DOMAIN preStore
    /\ preStore[UsageId].lastResetTime.day # CurrentDay
    /\ preStore[UsageId].lastResetTime.minute = CurrentMinute
    /\ preStore[UsageId].requestsThisMinute > 0
    /\ preStore[UsageId].tokensThisMinute > 0
    /\ preStore[UsageId].requestsToday > 0
    /\ storage[UsageId].requestsToday = 0

(***************************************************************************)
(* C19: canHandle does not mutate usage: an entry whose stored indices are *)
(* current is left as it is, the only write is the stored entry after the  *)
(* reset rule, no entry is created, and a read after canHandle returns     *)
(* what a read before it returned.                                         *)
(***************************************************************************)
C19_CanHandleConsumesNoQuota ==
    result \in {"admitted", "refused"} =>
        /\ DOMAIN storage = DOMAIN preStore
        /\ UsageRead(storage) = UsageRead(preStore)
        /\ ~UsagePair.account.hasRateLimit => storage = preStore
        /\ (UsagePair.account.hasRateLimit /\ UsageId \in DOMAIN preStore) =>
             /\ storage[UsageId] = ResetIfNeeded(preStore[UsageId], selTime)
             /\ preStore[UsageId].lastResetTime =
                    [minute |-> CurrentMinute, day |-> CurrentDay]
                => storage = preStore

\* canHandle admitted on an entry after recordings, and wrote back its reset
C19_Witness ==
    /\ result = "admitted"
    /\ UsagePair.account.hasRateLimit
    /\ UsageId \in DOMAIN preStore
    /\ preStore[UsageId].requestsToday > 0
    /\ storage # preStore

(***************************************************************************)
(* C20: availabilityScore is a number of [0, 1] for every RateLimit and    *)
(* every usage state, and is 1 for an account without rateLimit and for a  *)
(* limited account without usage.                                          *)
(***************************************************************************)
C20_ScoreInUnitInterval ==
    result = "scored" =>
        LET score == getAvailabilityScore(preStore, UsagePair.account,
                                          UsagePair.model, selTime).score
            usage == UsageRead(preStore)
            unused == /\ usage.requestsThisMinute = 0
                      /\ usage.tokensThisMinute = 0
                      /\ usage.requestsToday = 0
        IN  /\ score.den > 0
            /\ 0 <= score.num
            /\ score.num <= score.den
            /\ (~UsagePair.account.hasRateLimit \/ unused) => score.num = score.den

(***************************************************************************)
(* C12: an account whose only limit is rpm = 2 is admitted while fewer     *)
(* than 2 requests were recorded for it in the current minute and refused  *)
(* from then on; in the next minute it is admitted again whatever value    *)
(* requestsThisMinute had reached.                                         *)
(***************************************************************************)
C12_AdmittedUntilTwoPerMinute ==
    (config = CfgSingle /\ result \in {"selected", AllAccountsExhausted})
    => (result = "selected" <=> winCount[1] < 2)

\* admitted in a later minute although the stored counter had reached 3
C12_Witness ==
    /\ config = CfgSingle
    /\ result = "selected"
    /\ IdOf(1) \in DOMAIN preStore
    /\ preStore[IdOf(1)].requestsThisMinute = 3
    /\ preStore[IdOf(1)].lastResetTime.minute < Minute(selTime)
    /\ winCount[1] = 0

(***************************************************************************)
(* C18: usage is tracked separately per (credential, model) pair: the      *)
(* requestsThisMinute read for a pair is the number of recordRequest calls *)
(* made for that pair in the current minute, whatever was recorded for     *)
(* pairs that differ from it in credential or in model.                    *)
(***************************************************************************)
C18_UsageSeparatePerPair ==
    \A j \in 1..Len(Candidates) :
        UsageOf(storage, j, now).requestsThisMinute = CountNow[j]

(***************************************************************************)
(* C16: over a store with increment no update is lost: whatever the        *)
(* interleaving of the recordRequest calls in flight on one key in one     *)
(* minute, the stored counters are those the store began with (none for a  *)
(* key without entry) plus one request and the tokens of every completed   *)
(* call.                                                                   *)
(***************************************************************************)
C16_NoLostUpdateWithIncrement ==
    (config \in RaceConfigs /\ config.hasIncrement) =>
        LET usage == UsageOf(storage, 1, now)
        IN  /\ usage.requestsThisMinute = race.expected.requestsThisMinute
            /\ usage.tokensThisMinute = race.expected.tokensThisMinute
            /\ usage.requestsToday = race.expected.requestsToday

\* all callers were inside recordRequest at once on a key without entry, and
\* all their calls are counted
C16_Witness ==
    /\ config \in RaceConfigs
    /\ config.hasIncrement
    /\ race.overlap
    /\ race.directCalls = NumProcs
    /\ \A p \in Procs : race.pc[p] = "idle"
    /\ race.expected.requestsThisMinute = NumProcs
    /\ race.expected.tokensThisMinute > 0
    /\ storage[UsageId].requestsThisMinute = NumProcs

(***************************************************************************)
(* C17: with at most N chat calls in flight at once on one key, the        *)
(* requests admitted in one minute exceed the ceiling rpm by at most       *)
(* N - 1, and the recorded requestsThisMinute never exceeds rpm + N - 1.   *)
(***************************************************************************)
C17_OverAdmissionBounded ==
    (config \in RaceConfigs /\ race.directCalls = 0) =>
        /\ race.expected.requestsThisMinute + race.sent
               <= UsagePair.account.rateLimit.rpm + NumProcs - 1
        /\ UsageOf(storage, 1, now).requestsThisMinute
               <= UsagePair.account.rateLimit.rpm + NumProcs - 1

(***************************************************************************)
(* Readings of a recording and the scores around it.                       *)
(***************************************************************************)
\* availabilityScore of the pair read from store st at the operation's time
ScoreRead(st) ==
    getAvailabilityScore(st, UsagePair.account, UsagePair.model, selTime).score

\* a recordRequest on an entry of the current minute and day, or on no entry
RecordedInWindow ==
    /\ result = "recorded"
    /\ UsageId \in DOMAIN preStore =>
         preStore[UsageId].lastResetTime = [minute |-> CurrentMinute, day |-> CurrentDay]

\* a rateLimit is configured and no ceiling of it is 0
PositiveCeilings ==
    /\ UsagePair.account.hasRateLimit
    /\ UsageLimit.rpm # 0
    /\ UsageLimit.tpm # 0
    /\ UsageLimit.rpd # 0

(***************************************************************************)
(* C21, as stated: every recordRequest in the same window makes the        *)
(* availabilityScore of a limited account strictly smaller than before it. *)
(***************************************************************************)
C21_ScoreStrictlyDecreases ==
    (RecordedInWindow /\ PositiveCeilings /\ UsageLimit # NoLimits)
    => ScoreLess(ScoreRead(storage), ScoreRead(preStore))

(***************************************************************************)
(* C21, amended: a recordRequest in the same window never makes the score  *)
(* larger; it makes it strictly smaller exactly when the score before was  *)
(* above 0 and the recording moves a configured dimension, that is rpm or  *)
(* rpd is set, or tpm is set and the recorded tokens are not 0.            *)
(***************************************************************************)
C21_ScoreNeverIncreases ==
    (RecordedInWindow /\ PositiveCeilings)
    => LET before == ScoreRead(preStore)
           after  == ScoreRead(storage)
           moves  == \/ UsageLimit.rpm # Undefined
                     \/ UsageLimit.rpd # Undefined
                     \/ UsageLimit.tpm # Undefined /\ tokensUsed > 0
       IN  /\ ~ScoreLess(before, after)
           /\ ScoreLess(after, before) <=> (before.num > 0 /\ moves)

\* a recording lowered a score that was above 0 and below 1
C21_Witness ==
    /\ RecordedInWindow
    /\ PositiveCeilings
    /\ UsageLimit.rpd # Undefined
    /\ ScoreLess(ScoreRead(preStore), [num |-> 1, den |-> 1])
    /\ ScoreLess(ScoreRead(storage), ScoreRead(preStore))
    /\ ScoreRead(storage).num > 0

(***************************************************************************)
(* Readings of a select: the provider a candidate was flattened from and   *)
(* the endpoint its configuration asks for.                                *)
(***************************************************************************)
RECURSIVE ProviderIndex(_, _, _)
ProviderIndex(providers, k, i) ==
    IF i <= Len(FlattenAccounts(providers[k], 1)) THEN k
    ELSE ProviderIndex(providers, k + 1, i - Len(FlattenAccounts(providers[k], 1)))

ProviderOf(i) == config.providers[ProviderIndex(config.providers, 1, i)]

TypeOf(provider) == IF "type" \in DOMAIN provider THEN provider.type ELSE ""

\* the explicit endpoint, else the endpoint of the type; "" when neither resolves
EffectiveEndpoint(provider) ==
    IF provider.endpoint # "" THEN provider.endpoint
    ELSE getProviderEndpoint(TypeOf(provider))

UnknownStrategy == "Unknown strategy"

RateLimitManagerRequired == "Rate limit manager is required for rate-limit-aware strategy"

NoProvidersConfigured == "No providers configured"

(***************************************************************************)
(* C22: a select on an empty flattened candidate list fails with           *)
(* 'No providers configured', under every strategy; it returns no          *)
(* undefined candidate and does not report that all accounts are           *)
(* exhausted.                                                               *)
(***************************************************************************)
C22_EmptyListIsNoProviders ==
    (result # "" /\ Len(Candidates) = 0) => result = NoProvidersConfigured

(***************************************************************************)
(* C23: the endpoint of a returned candidate is its provider's explicit    *)
(* endpoint if set, otherwise the endpoint of the provider's type; no      *)
(* candidate is returned whose provider resolves neither.                  *)
(***************************************************************************)
C23_EndpointExplicitOrOfType ==
    result = "selected" =>
        /\ EffectiveEndpoint(ProviderOf(sel)) # ""
        /\ Candidates[sel].endpoint = EffectiveEndpoint(ProviderOf(sel))

C25_RandomReturnsACandidate ==
    (/\ config.strategy \in {"random", "undefined"}
     /\ result \notin {"", NoProvidersConfigured})
    => /\ result = "selected"
       /\ sel \in 1..Len(Candidates)
       /\ storage = preStore

(***************************************************************************)
(* C28: when the dispatch to the selected candidate fails and another      *)
(* candidate is configured, chat switches to it: the call does not fail.   *)
(***************************************************************************)
C28_FailoverToBackup ==
    (/\ pc = "done"
     /\ nFetch >= 1
     /\ outcome \in {"http", "network"}
     /\ \E j \in 1..Len(Candidates) : Candidates[j].apiKey # Candidates[sel].apiKey)
    => result = "ok"

(***************************************************************************)
(* C29: every dispatch that was started is eventually followed, once it    *)
(* settles, by a recordRequest for the account and model that were used:   *)
(* usage of that pair is on record.                                        *)
(***************************************************************************)
C29_DispatchEventuallyRecorded ==
    (pc = "fetch" /\ config.strategy = "rate-limit-aware")
        ~> (pc = "done" /\ IdOf(sel) \in DOMAIN storage)

(***************************************************************************)
(* Readings of a chat call that runs through the middleware chain.         *)
(***************************************************************************)
\* how often a step is in the log of the call
Count(ev) == Cardinality({k \in 1..Len(onion.log) : onion.log[k].ev = ev})

\* every middleware of the chain calls next once and returns its result
CallsNextOnce == \A k \in 1..Len(onion.chain) : onion.chain[k] = "once"

\* the steps of the last layer of a call that succeeded
TerminalSteps == IF RecordingEnabled(config) THEN 3 ELSE 2

\* pre-next parts outermost first, the last layer, post-next parts innermost
\* first
OnionOrder ==
    LET n == Len(onion.chain)
        t == TerminalSteps
    IN  [k \in 1..(2 * n + t) |->
            IF k <= n THEN Event("pre", k - 1)
            ELSE IF k = n + 1 THEN Event("select", n)
            ELSE IF k = n + 2 THEN Event("dispatch", n)
            ELSE IF k = n + 3 /\ t = 3 THEN Event("record", n)
            ELSE Event("post", 2 * n + t - k)]

C26_EachStepExactlyOnce ==
    (/\ onion.status = "done"
     /\ onion.ret = "ok"
     /\ RecordingEnabled(config)
     /\ config.hasIncrement
     /\ Count("select") > 0)
    => /\ Count("select") = 1
       /\ Count("dispatch") = 1
       /\ Count("record") = 1
       /\ \E k \in 1..(Len(onion.log) - 2) :
            /\ onion.log[k].ev = "select"
            /\ onion.log[k + 1].ev = "dispatch"
            /\ onion.log[k + 2].ev = "record"

(***************************************************************************)
(* C27: one chat call performs at most one select and at most one          *)
(* dispatch.                                                               *)
(***************************************************************************)
C27_AtMostOneSelectAndDispatch ==
    /\ Count("select") <= 1
    /\ Count("dispatch") <= 1

(***************************************************************************)
(* Readings of what the middlewares of a call did.                         *)
(***************************************************************************)
\* the middleware of layer i (from 0) ran in the call
Ran(i) == \E k \in 1..Len(onion.log) : onion.log[k] = Event("pre", i)

\* a middleware of this kind ran in the call
RanKind(kind) ==
    \E i \in 0..(Len(onion.chain) - 1) : onion.chain[i + 1] = kind /\ Ran(i)

\* nothing of the last layer ran in the call
TerminalSkipped ==
    /\ Count("select") = 0
    /\ Count("dispatch") = 0
    /\ Count("record") = 0

C32_MiddlewareErrorPropagates ==
    RanKind("throws") =>
        /\ TerminalSkipped
        /\ ~onion.wrote
        /\ \A i \in 0..(Len(onion.chain) - 1) :
             (onion.chain[i + 1] = "throws" /\ Ran(i)) =>
                 \A j \in (i + 1)..Len(onion.chain) : ~Ran(j)
        /\ onion.status = "done" => onion.ret = MiddlewareError

C32_Witness ==
    /\ onion.status = "done"
    /\ onion.chain = <<"once", "throws">>
    /\ onion.log = <<Event("pre", 0), Event("pre", 1)>>
    /\ onion.ret = MiddlewareError
    /\ RecordingEnabled(config)
    /\ Len(Flatten(config)) > 0

(***************************************************************************)
(* Readings of the load of the two accounts in the current minute.         *)
(***************************************************************************)
LoadDifference ==
    IF CountNow[1] >= CountNow[2] THEN CountNow[1] - CountNow[2]
    ELSE CountNow[2] - CountNow[1]

\* every select and recording so far was made in one minute of one day
InOneWindow == now = StartTime

\* every recording lowers the score of the candidate it is made for: requests
\* per minute or per day are limited, or tokens are and tokens are recorded
RecordingLowersScore ==
    LET limit == Flatten(config)[1].account.rateLimit
    IN  /\ Flatten(config)[1].account.hasRateLimit
        /\ \/ limit.rpm # Undefined
           \/ limit.rpd # Undefined
           \/ limit.tpm # Undefined /\ tokensUsed > 0

(***************************************************************************)
(* C33 as stated: with two accounts of identical limits, selects each      *)
(* followed by a recording of the same token amount for the selected       *)
(* account spread over both accounts: the requests recorded in the minute  *)
(* for the two never differ by more than one (so the second request of a   *)
(* minute goes to the other account).                                      *)
(***************************************************************************)
C33_LoadDistributed == InOneWindow => LoadDifference <= 1

(***************************************************************************)
(* C33 amended: the same, when every recording lowers the score of its     *)
(* account: a limit on requests per minute or per day is configured, or a  *)
(* limit on tokens per minute and the recorded token amount is not 0.      *)
(***************************************************************************)
C33_LoadDistributedWhenScoresMove ==
    (InOneWindow /\ calls > 0 /\ RecordingLowersScore) => LoadDifference <= 1

C33_Witness ==
    /\ InOneWindow
    /\ RecordingLowersScore
    /\ pc = "idle"
    /\ CountNow[1] = 2
    /\ CountNow[2] = 2

(***************************************************************************)
(* Readings of a text: its code points by script, and the estimate the     *)
(* rule (CJK) + ceil(Latin / 4) + ceil(other / 2) gives it.                *)
(***************************************************************************)
\* the least whole number that is not below n / d
Ceiling(n, d) == CHOOSE k \in 0..n : d * k >= n /\ d * k < n + d

CJKIn(text) == Cardinality({i \in 1..Len(text) : IsCJK(text[i])})

LatinIn(text) == Cardinality({i \in 1..Len(text) : IsLatin(text[i])})

TextEstimate(text) ==
    CJKIn(text) + Ceiling(LatinIn(text), 4)
        + Ceiling(Len(text) - CJKIn(text) - LatinIn(text), 2)

RECURSIVE MessagesEstimate(_)
MessagesEstimate(messages) ==
    IF messages = <<>> THEN 0
    ELSE (IF "content" \in DOMAIN Head(messages)
          THEN TextEstimate(Head(messages).content) ELSE 0)
         + MessagesEstimate(Tail(messages))

\* the request is one message whose code points all are of the set
OneMessageOf(codes) ==
    /\ Len(req.messages) = 1
    /\ "content" \in DOMAIN req.messages[1]
    /\ \A i \in 1..Len(req.messages[1].content) : req.messages[1].content[i] \in codes

(***************************************************************************)
(* C34: the estimate of a request is the sum over its messages of          *)
(* (CJK code points) + ceil(Latin code points / 4) + ceil(other code       *)
(* points / 2), a message without content or with the empty content        *)
(* counting 0; N Latin characters give ceil(N / 4), N CJK characters N, N  *)
(* characters of no script ceil(N / 2).                                    *)
(***************************************************************************)
C34_EstimateByScript ==
    /\ estimate = MessagesEstimate(req.messages)
    /\ (\A i \in 1..Len(req.messages) : ContentOrEmpty(req.messages[i]) = <<>>)
          => estimate = 0
    /\ OneMessageOf({72}) => estimate = Ceiling(Len(req.messages[1].content), 4)
    /\ OneMessageOf({20320}) => estimate = Len(req.messages[1].content)
    /\ OneMessageOf({128512, 12288})
          => estimate = Ceiling(Len(req.messages[1].content), 2)

C34_Witness ==
    /\ Len(req.messages) = 2
    /\ "content" \notin DOMAIN req.messages[1]
    /\ "content" \in DOMAIN req.messages[2]
    /\ req.messages[2].content = <<72, 72, 72, 72, 72>>
    /\ estimate = 2

(***************************************************************************)
(* Readings of a read that met an entry of another minute or day.          *)
(***************************************************************************)
\* the last operation was a read, and the entry it found is of another
\* minute or of another day than the clock's
FoundChangedBucket ==
    /\ result \in {"read", "admitted", "refused", "scored"}
    /\ ReadsUsage
    /\ UsageId \in DOMAIN preStore
    /\ \/ preStore[UsageId].lastResetTime.minute # CurrentMinute
       \/ preStore[UsageId].lastResetTime.day # CurrentDay

\* the entry with the counters of the buckets that changed set to 0
ResetRecord(usage) ==
    [requestsThisMinute |-> IF usage.lastResetTime.minute = CurrentMinute
                            THEN usage.requestsThisMinute ELSE 0,
     tokensThisMinute   |-> IF usage.lastResetTime.minute = CurrentMinute
                            THEN usage.tokensThisMinute ELSE 0,
     requestsToday      |-> IF usage.lastResetTime.day = CurrentDay
                            THEN usage.requestsToday ELSE 0,
     lastResetTime      |-> [minute |-> CurrentMinute, day |-> CurrentDay]]

\* the entry a recordRequest with these tokens, made at the time of the read,
\* leaves in store st
RecordedOver(st, tokens) ==
    recordRequest(st, config.hasIncrement, UsagePair.account, UsagePair.model,
                  tokens, selTime)[UsageId]

(***************************************************************************)
(* C35: a read (canHandle, availabilityScore, getUsage) that finds an      *)
(* entry of another minute or day stores the reset record: the usage it    *)
(* returns is the stored entry; a recording that follows in the same       *)
(* window leaves that entry plus one request and its tokens, which is what *)
(* the recording leaves when it is made without the read before it.        *)
(***************************************************************************)
C35_ReadPersistsReset ==
    FoundChangedBucket =>
        /\ UsageId \in DOMAIN storage
        /\ storage[UsageId] = ResetRecord(preStore[UsageId])
        /\ UsageRead(preStore) = storage[UsageId]
        /\ \A tokens \in RecordTokens :
             /\ RecordedOver(storage, tokens) =
                  [storage[UsageId] EXCEPT !.requestsThisMinute = @ + 1,
                                           !.tokensThisMinute = @ + tokens,
                                           !.requestsToday = @ + 1]
             /\ RecordedOver(storage, tokens) = RecordedOver(preStore, tokens)

\* a score read in a later minute of the same day, after a request with tokens
C35_Witness ==
    /\ FoundChangedBucket
    /\ result = "scored"
    /\ preStore[UsageId].requestsThisMinute = 1
    /\ preStore[UsageId].tokensThisMinute = 3
    /\ preStore[UsageId].requestsToday = 1
    /\ preStore[UsageId].lastResetTime.day = CurrentDay
    /\ storage[UsageId].requestsThisMinute = 0
    /\ storage[UsageId].requestsToday = 1

(***************************************************************************)
(* C36: from an empty store, with usage changed only by recordRequest and  *)
(* by the resets of reads, every stored record has                         *)
(* 0 <= requestsThisMinute <= requestsToday and tokensThisMinute >= 0, and *)
(* its day index is that of its minute index: floor(minute / 1440).        *)
(***************************************************************************)
C36_StoredUsageWellFormed ==
    \A id \in DOMAIN storage :
        /\ 0 <= storage[id].requestsThisMinute
        /\ storage[id].requestsThisMinute <= storage[id].requestsToday
        /\ storage[id].tokensThisMinute >= 0
        /\ storage[id].lastResetTime.day =
             storage[id].lastResetTime.minute \div (MsPerDay \div MsPerMinute)

\* an entry recorded to in two minutes of a day, and one of the next day
C36_Witness ==
    \E id, other \in DOMAIN storage :
        /\ storage[id].requestsThisMinute = 1
        /\ storage[id].requestsToday = 2
        /\ storage[id].lastResetTime.minute = StartTime \div MsPerMinute + 1
        /\ storage[other].lastResetTime.day = StartTime \div MsPerDay + 1
        /\ storage[other].requestsToday = 1

(***************************************************************************)
(* Readings of a chat call whose select failed.                            *)
(***************************************************************************)
SelectionFailed ==
    /\ pc = "done"
    /\ result \in {NoProvidersConfigured, AllAccountsExhausted, UnknownStrategy,
                   RateLimitManagerRequired}

\* the entry is the one of before, or that one with the counters of a minute
\* or day that has passed set to 0
SameApartFromReset(before, after) ==
    /\ after.lastResetTime = [minute |-> CurrentMinute, day |-> CurrentDay]
         \/ after.lastResetTime = before.lastResetTime
    /\ after.requestsThisMinute =
         (IF after.lastResetTime.minute = before.lastResetTime.minute
          THEN before.requestsThisMinute ELSE 0)
    /\ after.tokensThisMinute =
         (IF after.lastResetTime.minute = before.lastResetTime.minute
          THEN before.tokensThisMinute ELSE 0)
    /\ after.requestsToday =
         (IF after.lastResetTime.day = before.lastResetTime.day
          THEN before.requestsToday ELSE 0)

(***************************************************************************)
(* C37: a chat call whose select failed (no providers configured, all      *)
(* accounts exhausted, unknown strategy, manager required) sends no HTTP   *)
(* request and records nothing: the store holds the keys it held, each     *)
(* with the counters it had, apart from the resets of a minute or day that *)
(* has passed.                                                             *)
(***************************************************************************)
C37_FailedSelectionLeavesUsage ==
    SelectionFailed =>
        /\ nFetch = 0
        /\ nRecord = 0
        /\ DOMAIN storage = DOMAIN preStore
        /\ \A id \in DOMAIN storage : SameApartFromReset(preStore[id], storage[id])

\* all accounts exhausted, found after the reset of a minute that had passed
C37_Witness ==
    /\ SelectionFailed
    /\ result = AllAccountsExhausted
    /\ \E id \in DOMAIN storage :
         /\ preStore[id].requestsThisMinute = 2
         /\ storage[id].requestsThisMinute = 0
         /\ storage[id].requestsToday = 4

(***************************************************************************)
(* Readings of the two stores.                                             *)
(***************************************************************************)
Counters(usage) ==
    <<usage.requestsThisMinute, usage.tokensThisMinute, usage.requestsToday,
      usage.lastResetTime>>

(***************************************************************************)
(* C38: after the same recordRequest calls at the same times, awaited one  *)
(* after the other, the store with increment and the store with get and    *)
(* set only hold the same keys and, for every key, the same                *)
(* requestsThisMinute, tokensThisMinute, requestsToday and lastResetTime.  *)
(***************************************************************************)
C38_PathsAgree ==
    /\ DOMAIN storage = DOMAIN fallback
    /\ \A id \in DOMAIN storage : Counters(storage[id]) = Counters(fallback[id])

\* a key recorded in one minute and again after that minute and the day passed
C38_Witness ==
    /\ calls = MaxRecords
    /\ \E id \in DOMAIN fallback :
         /\ fallback[id].requestsThisMinute = 1
         /\ fallback[id].tokensThisMinute = 3
         /\ fallback[id].requestsToday = 1
         /\ fallback[id].lastResetTime.day = StartTime \div MsPerDay + 1
    /\ \E id \in DOMAIN fallback :
         /\ fallback[id].requestsThisMinute = 2
         /\ fallback[id].requestsToday = 2

(***************************************************************************)
(* Readings of the direct recordRequest calls on a store with get and set  *)
(* only.                                                                   *)
(***************************************************************************)
\* the pair's entry as the store holds it
RaceStored == IF UsageId \in DOMAIN storage THEN storage[UsageId]
              ELSE NewUsage(StartTime)

\* direct calls that have returned, and the counters before the first of them
DirectReturned ==
    race.directCalls - Cardinality({p \in Procs : race.pc[p] # "idle" /\ race.direct[p]})

RequestsBefore == race.expected.requestsThisMinute - DirectReturned

(***************************************************************************)
(* C39: on a store with get and set only, recordRequest calls on one key   *)
(* that overlap within one minute never count too much: once N calls have  *)
(* returned, requestsThisMinute has grown by at least 1 and at most N and  *)
(* tokensThisMinute holds at most the tokens recorded.                     *)
(***************************************************************************)
C39_FallbackNeverOverCounts ==
    (~config.hasIncrement /\ DirectReturned >= 1)
        => /\ RaceStored.requestsThisMinute >= RequestsBefore + 1
           /\ RaceStored.requestsThisMinute <= RequestsBefore + DirectReturned
           /\ RaceStored.tokensThisMinute <= race.expected.tokensThisMinute

\* calls that overlapped have all returned, and an update was lost
C39_Witness ==
    /\ ~config.hasIncrement
    /\ race.overlap
    /\ \A p \in Procs : race.pc[p] = "idle"
    /\ DirectReturned >= NumProcs
    /\ RaceStored.requestsThisMinute < RequestsBefore + DirectReturned
    /\ RaceStored.tokensThisMinute < race.expected.tokensThisMinute

(***************************************************************************)
(* Readings of chat under the strategy 'random'.                           *)
(***************************************************************************)
\* config.strategy === 'random' || !config.strategy
RandomStrategy == config.strategy \in {"random", "undefined"}

\* what a select made now may return, for any request
Selectable ==
    {o.provider : o \in UNION {selectProvider(config, TRUE, storage, TRUE, r, now) :
                                  r \in Requests}}

\* the first account's requests of the current minute have reached its rpm
FirstExhausted ==
    LET pm == Flatten(config)[1]
        id == getAccountModelIdentifier(pm.account, pm.model)
    IN  /\ pm.account.hasRateLimit
        /\ id \in DOMAIN storage
        /\ storage[id].lastResetTime.minute = Minute(now)
        /\ storage[id].requestsThisMinute >= pm.account.rateLimit.rpm

(***************************************************************************)
(* C40: under the strategy 'random', or with no strategy, no step of a     *)
(* chat call (the select, the answer of the fetch, the code after it in    *)
(* the try or the catch block) changes the usage store, not even by the    *)
(* reset of a minute that has passed, and every candidate stays            *)
(* selectable whatever the limits of its account and its stored usage.     *)
(***************************************************************************)
C40_RandomLeavesUsageStore ==
    /\ [][RandomStrategy => storage' = storage]_vars
    /\ [](RandomStrategy => Selectable = 1..Len(Flatten(config)))

\* a later call sent to the account whose stored usage is at its limit
C40_Witness ==
    /\ RandomStrategy
    /\ calls >= 2
    /\ pc = "done"
    /\ result = "ok"
    /\ sel = 1
    /\ nFetch = 1
    /\ FirstExhausted
    /\ storage # EmptyStore

=============================================================================
